---- MODULE Spec2Model ----
\* Verification model of jb-serve: the tool executor
\* (internal/tools/executor.go) with its process tables, health supervisors
\* and Start / Stop / Close / Call handlers, the reply parsing of the two
\* transports, the file store and the broker. The jumpboot child processes,
\* the database, the file system and the clock are the environment.
EXTENDS Integers, FiniteSets, Sequences, TLC

\* ------------------------------------------------------------------ bounds
\* Child processes that may be spawned in one behaviour.
MaxChildren == 2
\* Largest failure_threshold a manifest of the catalogue declares.
MaxThreshold == 2
\* Cap on Tool.HealthFailures (the code lets it grow without limit).
MaxFailures == 3

\* ------------------------------------------------------------- vocabulary
\* The installed tools: Init draws the manifest of each from Manifests.
ToolNames == {"a"}
\* A name no manifest of the catalogue carries.
Unknown == "zz"
CallNames == ToolNames \cup {Unknown}
\* Every manifest of the catalogue declares the method "run" and no other.
Methods == {"run"}
MethodNames == Methods \cup {"nope"}
\* Request handlers in flight at once.
Procs == {"p1"}
ChildIds == 1..MaxChildren
NoChild == 0

\* config.Manifest, reduced to the fields the executor reads; health = 0 is a
\* manifest without health block, otherwise it is Health.FailureThreshold.
Manifests ==
    [mode : {"oneshot", "persistent"},
     transport : {"repl", "msgpack"},
     health : 0..MaxThreshold]

VARIABLES
    registry,        \* Manager.tools: name -> manifest
    env,             \* Tool.Env # nil
    status,          \* Tool.Status
    healthStatus,    \* Tool.HealthStatus
    healthFailures,  \* Tool.HealthFailures
    repls,           \* Executor.repls: name -> child
    queues,          \* Executor.queues: name -> child
    healthCancels,   \* Executor.healthCancels: name -> supervisor run
    mu,              \* Executor.mu: "free" or the handler holding the write lock
    child,           \* spawned jumpboot processes: id -> [tool, st]
    sup,             \* health supervisor goroutines, one per started child
    proc,            \* request handler goroutines
    reply,           \* what the child's channel delivered for one call
    result,          \* what doCall / doQueueCall returned for it
    rows,            \* filestore: the files table, id -> [name, exp]
    blobs,           \* filestore: {blobs}/{id}, id -> "empty" or "full"
    nextId,          \* filestore: the next identifier uuid.New hands out
    smu,             \* Store.mu: the writer and the set of readers
    now,             \* time.Now().Unix()
    sproc,           \* callers of the store
    gc,              \* the store's gcLoop goroutine
    children,        \* Broker.children: id -> [url, tools, status, age]
    toolMap,         \* Broker.toolMap: tool -> child id
    lastClaim,       \* history: tool -> id of the latest Register naming it
    hb,              \* the handler of a heartbeat request
    px,              \* the handler of a proxied tool request
    catalog,         \* Manager.tools of the installer: name -> [path, manifest, env]
    toolsDir,        \* the tools root: entry -> manifest of its jumpboot.yaml
    envs,            \* the environments under EnvsDir, by tool name
    inst,            \* the last Install: its source and what it returned
    \* API server: the request at authMiddleware, the multipart call request
    \* in handleTool, the upload directory, the next temp file
    auth, up, uploads, nextUp,
    client           \* ChildClient: its owner, stopCh, the WaitGroup, the loops

execVars == <<registry, env, status, healthStatus, healthFailures, repls, queues,
              healthCancels, mu, child, sup, proc>>
parseVars == <<reply, result>>
storeVars == <<rows, blobs, nextId, smu, now, sproc, gc>>
\* Everything that is not state of the Executor.
brokerVars == <<children, toolMap, lastClaim, hb, px>>
installVars == <<catalog, toolsDir, envs, inst>>
\* The subsystems modelled after the broker.
serverVars == <<auth, up, uploads, nextUp>>
clientVars == <<client>>
restVars == <<installVars, serverVars, clientVars>>
baseVars == <<execVars, parseVars, storeVars, brokerVars>>
nonExec == <<parseVars, storeVars, brokerVars, restVars>>

vars == <<execVars, nonExec>>

toolVars == <<status, healthStatus, healthFailures>>
tableVars == <<repls, queues, healthCancels>>

\* ---------------------------------------------------------------- helpers
Idle == [pc |-> "idle", op |-> "none", tool |-> "none", m |-> "none", h |-> NoChild, res |-> "none"]
NoSup == [pc |-> "none", cancelled |-> FALSE, h |-> NoChild, late |-> FALSE]
NoProc == [tool |-> "none", st |-> "none"]

Installed(t) == t \in DOMAIN registry
Persistent(t) == registry[t].mode = "persistent"
Msgpack(t) == registry[t].transport = "msgpack"
HasHealth(t) == registry[t].health # 0
InTable(t) == t \in DOMAIN repls \/ t \in DOMAIN queues

FreeIds == {c \in ChildIds : child[c].st = "none"}
NewId == CHOOSE c \in FreeIds : \A d \in FreeIds : c <= d

\* C1 mutant: the delete is left out.
WithoutForgotten(m, k) == m

\* A map without the key k (Go's delete(m, k)).
Without(m, k) == [x \in DOMAIN m \ {k} |-> m[x]]
\* A map with k set to v (Go's m[k] = v).
With(m, k, v) == [x \in DOMAIN m \cup {k} |-> IF x = k THEN v ELSE m[x]]

Done(p, r) == [proc EXCEPT ![p].pc = "done", ![p].res = r, ![p].h = NoChild]

\* No call is being parsed.
NoReply == [transport |-> "none", err |-> FALSE, data |-> <<>>]
NoResult == [err |-> "none", val |-> <<>>]
NoParse == reply = NoReply /\ result = NoResult

\* There is no executor.
NoExec ==
    /\ registry = <<>>
    /\ env = <<>>
    /\ status = <<>>
    /\ healthStatus = <<>>
    /\ healthFailures = <<>>
    /\ repls = <<>>
    /\ queues = <<>>
    /\ healthCancels = <<>>
    /\ mu = "free"
    /\ child = <<>>
    /\ sup = <<>>
    /\ proc = <<>>

\* There is no file store.
NoStore ==
    /\ rows = <<>>
    /\ blobs = <<>>
    /\ nextId = 0
    /\ smu = [w |-> "free", r |-> {}]
    /\ now = 0
    /\ sproc = <<>>
    /\ gc = <<>>

\* There is no broker.
NoBroker ==
    /\ children = <<>>
    /\ toolMap = <<>>
    /\ lastClaim = <<>>
    /\ hb = <<>>
    /\ px = <<>>

\* There is no installer.
NoInstall ==
    /\ catalog = <<>>
    /\ toolsDir = <<>>
    /\ envs = {}
    /\ inst = <<>>

NoServer ==
    /\ auth = <<>>
    /\ up = <<>>
    /\ uploads = {}
    /\ nextUp = 0

NoClient == client = <<>>

NoRest == NoInstall /\ NoServer /\ NoClient

\* ------------------------------------------------------------------- Init
\* NewExecutor over a Manager whose catalogue was loaded by LoadAll (Env nil)
\* or filled by Install (Env set): empty tables, every tool stopped.
Init ==
    /\ registry \in [ToolNames -> Manifests]
    /\ env \in [ToolNames -> BOOLEAN]
    /\ status = [t \in ToolNames |-> "stopped"]
    /\ healthStatus = [t \in ToolNames |-> ""]
    /\ healthFailures = [t \in ToolNames |-> 0]
    /\ repls = <<>>
    /\ queues = <<>>
    /\ healthCancels = <<>>
    /\ mu = "free"
    /\ child = [c \in ChildIds |-> NoProc]
    /\ sup = [c \in ChildIds |-> NoSup]
    /\ proc = [p \in Procs |-> Idle]
    /\ NoParse
    /\ NoStore
    /\ NoBroker
    /\ NoRest

\* ------------------------------------------------------------------- Call
\* Manager.EnsureEnvironment: nothing to do when Tool.Env is set; otherwise
\* the provisioner either delivers an environment or fails (ok says which).
EnsureEnvironment(t, ok) ==
    IF env[t] THEN env' = env
    ELSE IF ok THEN env' = [env EXCEPT ![t] = TRUE]
    ELSE env' = env

EnvFails(t, ok) == ~env[t] /\ ~ok

\* C9 mutant: the method is not looked up in the manifest.
ValidateToolOnly(t, m) ==
    IF ~Installed(t) THEN "ToolNotFound" ELSE "none"

\* The two lookups that open Executor.Call: the tool in the registry, the
\* method in the tool's manifest.
Validate(t, m) ==
    IF ~Installed(t) THEN "ToolNotFound"
    ELSE IF m \notin Methods THEN "MethodNotFound"
    ELSE "none"

\* Executor.Call up to the dispatch on (mode, transport): registry lookup,
\* method lookup, EnsureEnvironment, and for a oneshot tool the spawn of the
\* fresh child (NewREPLPythonProcess / NewQueueProcess), which may fail.
CallBegin(p, t, m, envOk, spawnOk) ==
    /\ proc[p].pc = "idle"
    /\ LET q == [proc EXCEPT ![p].op = "Call", ![p].tool = t, ![p].m = m] IN
       IF Validate(t, m) # "none" THEN
            /\ proc' = [q EXCEPT ![p].pc = "done", ![p].res = Validate(t, m)]
            /\ UNCHANGED <<env, child>>
       ELSE IF EnvFails(t, envOk) THEN
            /\ proc' = [q EXCEPT ![p].pc = "done", ![p].res = "EnvError"]
            /\ UNCHANGED <<env, child>>
       ELSE IF Persistent(t) THEN
            /\ EnsureEnvironment(t, envOk)
            /\ proc' = [q EXCEPT ![p].pc = "lookup"]
            /\ UNCHANGED child
       ELSE IF ~spawnOk THEN
            /\ EnsureEnvironment(t, envOk)
            /\ proc' = [q EXCEPT ![p].pc = "done", ![p].res = "SpawnFailed"]
            /\ UNCHANGED child
       ELSE
            /\ FreeIds # {}
            /\ EnsureEnvironment(t, envOk)
            /\ child' = [child EXCEPT ![NewId] = [tool |-> t, st |-> "open"]]
            /\ proc' = [q EXCEPT ![p].pc = "oneshot", ![p].h = NewId]
    /\ UNCHANGED <<registry, toolVars, tableVars, mu, sup>>
    /\ UNCHANGED nonExec

\* C2 mutant: the missing entry is not checked for; the call on the nil
\* handle fails in the transport.
CallLookupUnchecked(p) ==
    /\ proc[p].pc = "lookup"
    /\ mu = "free"
    /\ LET t == proc[p].tool
           tbl == IF Msgpack(t) THEN queues ELSE repls IN
       IF t \in DOMAIN tbl
       THEN proc' = [proc EXCEPT ![p].pc = "invoke", ![p].h = tbl[t]]
       ELSE proc' = Done(p, "TransportError")
    /\ UNCHANGED <<registry, env, toolVars, tableVars, mu, child, sup>>
    /\ UNCHANGED nonExec

\* callPersistent / callPersistentMsgpack, the table lookup under the read
\* lock: a missing entry is the "not running" error.
CallLookup(p) ==
    /\ proc[p].pc = "lookup"
    /\ mu = "free"
    /\ LET t == proc[p].tool
           tbl == IF Msgpack(t) THEN queues ELSE repls IN
       IF t \in DOMAIN tbl
       THEN proc' = [proc EXCEPT ![p].pc = "invoke", ![p].h = tbl[t]]
       ELSE proc' = Done(p, "NotRunning")
    /\ UNCHANGED <<registry, env, toolVars, tableVars, mu, child, sup>>
    /\ UNCHANGED nonExec

\* What one request on the channel of child c can come to: a child that is
\* dead or closed gives a transport error; an open one answers (ok or, on the
\* eval channel, an ok=false envelope), fails transiently, or dies.
Outcomes(c, t) ==
    IF child[c].st # "open" THEN {"TransportError"}
    ELSE {"ok", "TransportError", "Died"} \cup (IF Msgpack(t) THEN {} ELSE {"ToolError"})

ResultOf(o) == IF o = "Died" THEN "TransportError" ELSE o

\* C10 mutant: a call that finds the child dead drops the tool's entry.
CallInvokeDrops(p, o) ==
    /\ proc[p].pc = "invoke"
    /\ o \in Outcomes(proc[p].h, proc[p].tool)
    /\ child' = IF o = "Died" THEN [child EXCEPT ![proc[p].h].st = "dead"] ELSE child
    /\ proc' = Done(p, ResultOf(o))
    /\ IF o = "Died"
       THEN /\ repls' = Without(repls, proc[p].tool)
            /\ queues' = Without(queues, proc[p].tool)
       ELSE UNCHANGED <<repls, queues>>
    /\ UNCHANGED <<registry, env, toolVars, healthCancels, mu, sup>>
    /\ UNCHANGED nonExec

\* doCall / doQueueCall on the shared child of a persistent tool, outside the
\* lock. No path of either touches the tables.
CallInvoke(p, o) ==
    /\ proc[p].pc = "invoke"
    /\ o \in Outcomes(proc[p].h, proc[p].tool)
    /\ child' = IF o = "Died" THEN [child EXCEPT ![proc[p].h].st = "dead"] ELSE child
    /\ proc' = Done(p, ResultOf(o))
    /\ UNCHANGED <<registry, env, toolVars, tableVars, mu, sup>>
    /\ UNCHANGED nonExec

\* C8 mutant: Close is not deferred; the error returns skip it.
CallOneshotLeaks(p, bootOk, o) ==
    /\ proc[p].pc = "oneshot"
    /\ o \in Outcomes(proc[p].h, proc[p].tool)
    /\ child' = IF (~Msgpack(proc[p].tool) /\ ~bootOk) \/ o \in {"TransportError", "Died"}
                THEN child
                ELSE [child EXCEPT ![proc[p].h].st = "closed"]
    /\ proc' = IF ~Msgpack(proc[p].tool) /\ ~bootOk
               THEN Done(p, "StartupFailed")
               ELSE Done(p, ResultOf(o))
    /\ UNCHANGED <<registry, env, toolVars, tableVars, mu, sup>>
    /\ UNCHANGED nonExec

\* callOneshot / callOneshotMsgpack after the spawn: bootstrap on the eval
\* channel (initializeService), the call, and the deferred Close.
CallOneshot(p, bootOk, o) ==
    /\ proc[p].pc = "oneshot"
    /\ o \in Outcomes(proc[p].h, proc[p].tool)
    /\ child' = [child EXCEPT ![proc[p].h].st = "closed"]
    /\ proc' = IF ~Msgpack(proc[p].tool) /\ ~bootOk
               THEN Done(p, "StartupFailed")
               ELSE Done(p, ResultOf(o))
    /\ UNCHANGED <<registry, env, toolVars, tableVars, mu, sup>>
    /\ UNCHANGED nonExec

\* The handler has written its response; the goroutine ends.
Return(p) ==
    /\ proc[p].pc = "done"
    /\ proc' = [proc EXCEPT ![p] = Idle]
    /\ UNCHANGED <<registry, env, toolVars, tableVars, mu, child, sup>>
    /\ UNCHANGED nonExec

\* ------------------------------------------------------------------ Start
\* C3 mutant: the mode of the manifest is not checked.
StartAnyMode(p, t) ==
    /\ proc[p].pc = "idle"
    /\ LET q == [proc EXCEPT ![p].op = "Start", ![p].tool = t] IN
       IF ~Installed(t) THEN
            /\ proc' = [q EXCEPT ![p].pc = "done", ![p].res = "ToolNotFound"]
            /\ mu' = mu
       ELSE
            /\ mu = "free"
            /\ mu' = p
            /\ proc' = [q EXCEPT ![p].pc = "locked"]
    /\ UNCHANGED <<registry, env, toolVars, tableVars, child, sup>>
    /\ UNCHANGED nonExec

\* Executor.Start up to e.mu.Lock(): an unknown name and a tool that is not
\* persistent are refused before the lock is asked for.
Start(p, t) ==
    /\ proc[p].pc = "idle"
    /\ LET q == [proc EXCEPT ![p].op = "Start", ![p].tool = t] IN
       IF ~Installed(t) THEN
            /\ proc' = [q EXCEPT ![p].pc = "done", ![p].res = "ToolNotFound"]
            /\ mu' = mu
       ELSE IF ~Persistent(t) THEN
            /\ proc' = [q EXCEPT ![p].pc = "done", ![p].res = "WrongMode"]
            /\ mu' = mu
       ELSE
            /\ mu = "free"
            /\ mu' = p
            /\ proc' = [q EXCEPT ![p].pc = "locked"]
    /\ UNCHANGED <<registry, env, toolVars, tableVars, child, sup>>
    /\ UNCHANGED nonExec

\* startRepl / startMsgpack once the child is up: the table entry, the tool's
\* fields, and the supervisor with its cancel function when the manifest has
\* a health block.
Started(t, c) ==
    /\ child' = [child EXCEPT ![c] = [tool |-> t, st |-> "open"]]
    /\ IF Msgpack(t)
       THEN queues' = With(queues, t, c) /\ repls' = repls
       ELSE repls' = With(repls, t, c) /\ queues' = queues
    /\ status' = [status EXCEPT ![t] = "running"]
    /\ healthStatus' = [healthStatus EXCEPT ![t] = "unknown"]
    /\ healthFailures' = [healthFailures EXCEPT ![t] = 0]
    /\ IF HasHealth(t)
       THEN /\ healthCancels' = With(healthCancels, t, c)
            /\ sup' = [sup EXCEPT ![c] = [pc |-> "select", cancelled |-> FALSE, h |-> NoChild,
                                             late |-> FALSE]]
       ELSE UNCHANGED <<healthCancels, sup>>

\* C32 mutant: Start does not look at the tables.
StartLockedUnchecked(p, envOk, spawnOk, bootOk) ==
    /\ proc[p].pc = "locked"
    /\ proc[p].op = "Start"
    /\ LET t == proc[p].tool IN
       IF EnvFails(t, envOk) THEN
            /\ proc' = Done(p, "EnvError")
            /\ UNCHANGED <<env, toolVars, tableVars, child, sup>>
       ELSE IF ~spawnOk THEN
            /\ EnsureEnvironment(t, envOk)
            /\ proc' = Done(p, "SpawnFailed")
            /\ UNCHANGED <<toolVars, tableVars, child, sup>>
       ELSE IF ~Msgpack(t) /\ ~bootOk THEN
            /\ FreeIds # {}
            /\ EnsureEnvironment(t, envOk)
            /\ child' = [child EXCEPT ![NewId] = [tool |-> t, st |-> "closed"]]
            /\ proc' = Done(p, "StartupFailed")
            /\ UNCHANGED <<toolVars, tableVars, sup>>
       ELSE
            /\ FreeIds # {}
            /\ EnsureEnvironment(t, envOk)
            /\ Started(t, NewId)
            /\ proc' = Done(p, "ok")
    /\ mu' = "free"
    /\ UNCHANGED registry
    /\ UNCHANGED nonExec

\* C33 mutant: the child whose bootstrap failed is not closed.
StartLockedLeaks(p, envOk, spawnOk, bootOk) ==
    /\ proc[p].pc = "locked"
    /\ proc[p].op = "Start"
    /\ LET t == proc[p].tool IN
       IF t \in DOMAIN repls \/ t \in DOMAIN queues THEN
            /\ proc' = Done(p, "AlreadyRunning")
            /\ UNCHANGED <<env, toolVars, tableVars, child, sup>>
       ELSE IF EnvFails(t, envOk) THEN
            /\ proc' = Done(p, "EnvError")
            /\ UNCHANGED <<env, toolVars, tableVars, child, sup>>
       ELSE IF ~spawnOk THEN
            /\ EnsureEnvironment(t, envOk)
            /\ proc' = Done(p, "SpawnFailed")
            /\ UNCHANGED <<toolVars, tableVars, child, sup>>
       ELSE IF ~Msgpack(t) /\ ~bootOk THEN
            /\ FreeIds # {}
            /\ EnsureEnvironment(t, envOk)
            /\ child' = [child EXCEPT ![NewId] = [tool |-> t, st |-> "open"]]
            /\ proc' = Done(p, "StartupFailed")
            /\ UNCHANGED <<toolVars, tableVars, sup>>
       ELSE
            /\ FreeIds # {}
            /\ EnsureEnvironment(t, envOk)
            /\ Started(t, NewId)
            /\ proc' = Done(p, "ok")
    /\ mu' = "free"
    /\ UNCHANGED registry
    /\ UNCHANGED nonExec

\* Executor.Start under the write lock: the already-running check on both
\* tables, EnsureEnvironment, then startRepl or startMsgpack; the deferred
\* Unlock ends it.
StartLocked(p, envOk, spawnOk, bootOk) ==
    /\ proc[p].pc = "locked"
    /\ proc[p].op = "Start"
    /\ LET t == proc[p].tool IN
       IF t \in DOMAIN repls \/ t \in DOMAIN queues THEN
            /\ proc' = Done(p, "AlreadyRunning")
            /\ UNCHANGED <<env, toolVars, tableVars, child, sup>>
       ELSE IF EnvFails(t, envOk) THEN
            /\ proc' = Done(p, "EnvError")
            /\ UNCHANGED <<env, toolVars, tableVars, child, sup>>
       ELSE IF ~spawnOk THEN
            /\ EnsureEnvironment(t, envOk)
            /\ proc' = Done(p, "SpawnFailed")
            /\ UNCHANGED <<toolVars, tableVars, child, sup>>
       ELSE IF ~Msgpack(t) /\ ~bootOk THEN
            /\ FreeIds # {}
            /\ EnsureEnvironment(t, envOk)
            /\ child' = [child EXCEPT ![NewId] = [tool |-> t, st |-> "closed"]]
            /\ proc' = Done(p, "StartupFailed")
            /\ UNCHANGED <<toolVars, tableVars, sup>>
       ELSE
            /\ FreeIds # {}
            /\ EnsureEnvironment(t, envOk)
            /\ Started(t, NewId)
            /\ proc' = Done(p, "ok")
    /\ mu' = "free"
    /\ UNCHANGED registry
    /\ UNCHANGED nonExec

\* ------------------------------------------------------------------- Stop
\* Executor.Stop up to e.mu.Lock().
Stop(p, t) ==
    /\ proc[p].pc = "idle"
    /\ LET q == [proc EXCEPT ![p].op = "Stop", ![p].tool = t] IN
       IF ~Installed(t) THEN
            /\ proc' = [q EXCEPT ![p].pc = "done", ![p].res = "ToolNotFound"]
            /\ mu' = mu
       ELSE
            /\ mu = "free"
            /\ mu' = p
            /\ proc' = [q EXCEPT ![p].pc = "locked"]
    /\ UNCHANGED <<registry, env, toolVars, tableVars, child, sup>>
    /\ UNCHANGED nonExec

\* C31 mutant: the cancel functions are not called.
CancelForgets(ts) == sup

\* cancel() of the supervisors whose cancel functions are stored under the
\* names in ts: the context is marked done, nothing waits for the goroutine.
Cancel(ts) ==
    [r \in ChildIds |->
        IF \E t \in ts \cap DOMAIN healthCancels : healthCancels[t] = r
        THEN [sup[r] EXCEPT !.cancelled = TRUE]
        ELSE sup[r]]

\* C35 mutant: Stop leaves the status as it is.
StopFieldsKeepStatus(t) ==
    /\ status' = status
    /\ healthStatus' = [healthStatus EXCEPT ![t] = ""]
    /\ healthFailures' = [healthFailures EXCEPT ![t] = 0]

\* The tool's fields as Stop leaves them.
StopFields(t) ==
    /\ status' = [status EXCEPT ![t] = "stopped"]
    /\ healthStatus' = [healthStatus EXCEPT ![t] = ""]
    /\ healthFailures' = [healthFailures EXCEPT ![t] = 0]

\* Executor.Stop under the write lock: cancel and forget the supervisor's
\* token, then close and forget the child of whichever table holds the tool.
StopLocked(p) ==
    /\ proc[p].pc = "locked"
    /\ proc[p].op = "Stop"
    /\ LET t == proc[p].tool IN
       /\ sup' = Cancel({t})
       /\ healthCancels' = Without(healthCancels, t)
       /\ IF t \in DOMAIN repls THEN
              /\ child' = [child EXCEPT ![repls[t]].st = "closed"]
              /\ repls' = Without(repls, t)
              /\ queues' = queues
              /\ StopFields(t)
              /\ proc' = Done(p, "ok")
          ELSE IF t \in DOMAIN queues THEN
              /\ child' = [child EXCEPT ![queues[t]].st = "closed"]
              /\ queues' = Without(queues, t)
              /\ repls' = repls
              /\ StopFields(t)
              /\ proc' = Done(p, "ok")
          ELSE
              /\ proc' = Done(p, "NotRunning")
              /\ UNCHANGED <<repls, queues, toolVars, child>>
    /\ mu' = "free"
    /\ UNCHANGED <<registry, env>>
    /\ UNCHANGED nonExec

\* ------------------------------------------------------------------ Close
\* Executor.Close up to e.mu.Lock().
Close(p) ==
    /\ proc[p].pc = "idle"
    /\ mu = "free"
    /\ mu' = p
    /\ proc' = [proc EXCEPT ![p].op = "Close", ![p].pc = "locked"]
    /\ UNCHANGED <<registry, env, toolVars, tableVars, child, sup>>
    /\ UNCHANGED nonExec

\* Executor.Close under the write lock: every token cancelled, every child of
\* both tables closed, its tool marked stopped with an empty health status
\* (HealthFailures is not reset here), and the three tables made anew.
CloseLocked(p) ==
    /\ proc[p].pc = "locked"
    /\ proc[p].op = "Close"
    /\ LET held == DOMAIN repls \cup DOMAIN queues
           closed == {repls[t] : t \in DOMAIN repls} \cup {queues[t] : t \in DOMAIN queues} IN
       /\ sup' = Cancel(DOMAIN healthCancels)
       /\ child' = [c \in ChildIds |->
                       IF c \in closed THEN [child[c] EXCEPT !.st = "closed"] ELSE child[c]]
       /\ status' = [t \in DOMAIN status |-> IF t \in held THEN "stopped" ELSE status[t]]
       /\ healthStatus' = [t \in DOMAIN status |-> IF t \in held THEN "" ELSE healthStatus[t]]
    /\ healthFailures' = healthFailures
    /\ healthCancels' = <<>>
    /\ repls' = <<>>
    /\ queues' = <<>>
    /\ proc' = Done(p, "ok")
    /\ mu' = "free"
    /\ UNCHANGED <<registry, env>>
    /\ UNCHANGED nonExec

\* ------------------------------------------------------ health supervisor
\* runHealthCheck / runHealthCheckMsgpack, the ticker case of the select, and
\* doHealthCheck / doHealthCheckMsgpack up to the RUnlock: the entry stored
\* under the tool's name is fetched from the table of the tool's transport.
\* Go's select may take this case when the context is done as well; late
\* records that it did.
SupTick(r) ==
    /\ sup[r].pc = "select"
    /\ mu = "free"
    /\ LET t == child[r].tool
           tbl == IF Msgpack(t) THEN queues ELSE repls IN
       sup' = [sup EXCEPT ![r].pc = "call",
                          ![r].h = IF t \in DOMAIN tbl THEN tbl[t] ELSE NoChild,
                          ![r].late = sup[r].cancelled]
    /\ UNCHANGED <<registry, env, toolVars, tableVars, mu, child, proc>>
    /\ UNCHANGED nonExec

\* C34 mutant: the supervisor returns only once the tool is stopped.
SupExitWhenStopped(r) ==
    /\ sup[r].pc = "select"
    /\ sup[r].cancelled
    /\ status[child[r].tool] = "stopped"
    /\ sup' = [sup EXCEPT ![r].pc = "done"]
    /\ UNCHANGED <<registry, env, toolVars, tableVars, mu, child, proc>>
    /\ UNCHANGED nonExec

\* The ctx.Done() case of the select: the goroutine returns.
SupExit(r) ==
    /\ sup[r].pc = "select"
    /\ sup[r].cancelled
    /\ sup' = [sup EXCEPT ![r].pc = "done"]
    /\ UNCHANGED <<registry, env, toolVars, tableVars, mu, child, proc>>
    /\ UNCHANGED nonExec

\* What the health method can answer on child c: the call's outcomes, with a
\* successful call carrying a healthy or an unhealthy result.
HealthOutcomes(c, t) ==
    IF c = NoChild THEN {"NotRunning"}
    ELSE (Outcomes(c, t) \ {"ok"}) \cup
         (IF child[c].st = "open" THEN {"healthy", "unhealthy"} ELSE {})

\* checkHealthResult over the call's outcome: nil for {"status": "ok"} or
\* "ok", an error for everything else.
CheckHealthResult(o) == IF o = "healthy" THEN "passed" ELSE "failed"

\* doHealthCheck / doHealthCheckMsgpack after the lookup: "tool not running"
\* without entry, otherwise the health call on the fetched handle and
\* checkHealthResult; err is left in the supervisor's position.
SupCall(r, o) ==
    /\ sup[r].pc = "call"
    /\ o \in HealthOutcomes(sup[r].h, child[r].tool)
    /\ child' = IF o = "Died" THEN [child EXCEPT ![sup[r].h].st = "dead"] ELSE child
    /\ sup' = [sup EXCEPT ![r].pc = CheckHealthResult(o), ![r].h = NoChild]
    /\ UNCHANGED <<registry, env, toolVars, tableVars, mu, proc>>
    /\ UNCHANGED nonExec

\* C5 mutant: the counter has to pass the threshold, not reach it.
HealthFailedLate(t) ==
    LET n == healthFailures[t] + 1 IN
    /\ healthFailures' = [healthFailures EXCEPT ![t] = n]
    /\ healthStatus' = IF n > registry[t].health
                       THEN [healthStatus EXCEPT ![t] = "unhealthy"]
                       ELSE healthStatus
    /\ UNCHANGED <<status, tableVars, child>>

\* The err # nil branch of the tick: the counter goes up by one and the
\* status becomes "unhealthy" once the counter is at the threshold. Nothing
\* but the two health fields is written.
HealthFailed(t) ==
    LET n == healthFailures[t] + 1 IN
    /\ healthFailures' = [healthFailures EXCEPT ![t] = n]
    /\ healthStatus' = IF n >= registry[t].health
                       THEN [healthStatus EXCEPT ![t] = "unhealthy"]
                       ELSE healthStatus
    /\ UNCHANGED <<status, tableVars, child>>

\* C6 mutant: the counter is not reset.
HealthPassedKeepsCount(t) ==
    /\ healthStatus' = [healthStatus EXCEPT ![t] = "healthy"]
    /\ healthFailures' = healthFailures
    /\ UNCHANGED <<status, tableVars, child>>

\* The err = nil branch of the tick.
HealthPassed(t) ==
    /\ healthStatus' = [healthStatus EXCEPT ![t] = "healthy"]
    /\ healthFailures' = [healthFailures EXCEPT ![t] = 0]
    /\ UNCHANGED <<status, tableVars, child>>

\* C7 mutant: a supervisor whose check failed reaps the tool the way Stop
\* does once the tool is unhealthy.
SupOutcomeReaps(r) ==
    /\ sup[r].pc \in {"passed", "failed"}
    /\ LET t == child[r].tool
           n == healthFailures[t] + 1 IN
       IF sup[r].pc = "passed" THEN HealthPassed(t)
       ELSE IF n >= registry[t].health /\ t \in DOMAIN repls THEN
            /\ healthFailures[t] < MaxFailures
            /\ healthFailures' = [healthFailures EXCEPT ![t] = n]
            /\ healthStatus' = [healthStatus EXCEPT ![t] = "unhealthy"]
            /\ status' = [status EXCEPT ![t] = "stopped"]
            /\ child' = [child EXCEPT ![repls[t]].st = "closed"]
            /\ repls' = Without(repls, t)
            /\ UNCHANGED <<queues, healthCancels>>
       ELSE healthFailures[t] < MaxFailures /\ HealthFailed(t)
    /\ sup' = [sup EXCEPT ![r].pc = "select"]
    /\ UNCHANGED <<registry, env, mu, proc>>
    /\ UNCHANGED nonExec

\* The body of the tick after doHealthCheck has returned, taken as one step:
\* the branch on err, then back to the select.
SupOutcome(r) ==
    /\ sup[r].pc \in {"passed", "failed"}
    /\ LET t == child[r].tool IN
       IF sup[r].pc = "failed"
       THEN healthFailures[t] < MaxFailures /\ HealthFailed(t)
       ELSE HealthPassed(t)
    /\ sup' = [sup EXCEPT ![r].pc = "select"]
    /\ UNCHANGED <<registry, env, mu, proc>>
    /\ UNCHANGED nonExec

\* ------------------------------------------------------------------- Next
Next ==
    \/ \E p \in Procs, t \in CallNames, m \in MethodNames, envOk, spawnOk \in BOOLEAN :
           CallBegin(p, t, m, envOk, spawnOk)
    \/ \E p \in Procs : CallLookup(p)
    \/ \E p \in Procs, o \in {"ok", "ToolError", "TransportError", "Died"} : CallInvoke(p, o)
    \/ \E p \in Procs, bootOk \in BOOLEAN, o \in {"ok", "ToolError", "TransportError", "Died"} :
           CallOneshot(p, bootOk, o)
    \/ \E p \in Procs : Return(p)
    \/ \E p \in Procs, t \in CallNames : Start(p, t)
    \/ \E p \in Procs, envOk, spawnOk, bootOk \in BOOLEAN : StartLocked(p, envOk, spawnOk, bootOk)
    \/ \E p \in Procs, t \in CallNames : Stop(p, t)
    \/ \E p \in Procs : StopLocked(p)
    \/ \E p \in Procs : Close(p)
    \/ \E p \in Procs : CloseLocked(p)
    \/ \E r \in ChildIds : SupTick(r)
    \/ \E r \in ChildIds : SupExit(r)
    \/ \E r \in ChildIds,
          o \in {"NotRunning", "healthy", "unhealthy", "ToolError", "TransportError", "Died"} :
           SupCall(r, o)
    \/ \E r \in ChildIds : SupOutcome(r)

Spec == Init /\ [][Next]_vars

\* ------------------------------------------------- supervisors that end
\* Supervisors of tool t that are inside a tick.
InFlight(t) ==
    Cardinality({r \in ChildIds : child[r].tool = t /\ sup[r].pc \in {"call", "passed", "failed"}})

\* The ticker case, taken only while the ticks in hand leave the failure
\* counter below MaxFailures, so that every tick can be completed.
LiveTick(r) ==
    /\ sup[r].pc = "select"
    /\ healthFailures[child[r].tool] + InFlight(child[r].tool) < MaxFailures
    /\ SupTick(r)

NextLive ==
    \/ \E p \in Procs, t \in CallNames, m \in MethodNames, envOk, spawnOk \in BOOLEAN :
           CallBegin(p, t, m, envOk, spawnOk)
    \/ \E p \in Procs : CallLookup(p)
    \/ \E p \in Procs, o \in {"ok", "ToolError", "TransportError", "Died"} : CallInvoke(p, o)
    \/ \E p \in Procs, bootOk \in BOOLEAN, o \in {"ok", "ToolError", "TransportError", "Died"} :
           CallOneshot(p, bootOk, o)
    \/ \E p \in Procs : Return(p)
    \/ \E p \in Procs, t \in CallNames : Start(p, t)
    \/ \E p \in Procs, envOk, spawnOk, bootOk \in BOOLEAN : StartLocked(p, envOk, spawnOk, bootOk)
    \/ \E p \in Procs, t \in CallNames : Stop(p, t)
    \/ \E p \in Procs : StopLocked(p)
    \/ \E p \in Procs : Close(p)
    \/ \E p \in Procs : CloseLocked(p)
    \/ \E r \in ChildIds : LiveTick(r)
    \/ \E r \in ChildIds : SupExit(r)
    \/ \E r \in ChildIds,
          o \in {"NotRunning", "healthy", "unhealthy", "ToolError", "TransportError", "Died"} :
           SupCall(r, o)
    \/ \E r \in ChildIds : SupOutcome(r)

\* A health call in flight returns and its outcome is acted on (weak
\* fairness); the select, offered ctx.Done() again and again, takes it at
\* some point (strong fairness: Go chooses among the ready cases at random).
SupFairness ==
    \A r \in ChildIds :
        /\ WF_vars(\E o \in {"NotRunning", "healthy", "unhealthy", "ToolError",
                              "TransportError", "Died"} : SupCall(r, o))
        /\ WF_vars(SupOutcome(r))
        /\ SF_vars(SupExit(r))

SpecLive == Init /\ [][NextLive]_vars /\ SupFairness

\* ------------------------------------------------- two tools, two handlers
\* The executor with two persistent tools without health block and two
\* request handlers running at once.
PairNames == {"a", "b"}
PairProcs == {"p1", "p2"}

InitPair ==
    /\ registry \in [PairNames -> {m \in Manifests : m.mode = "persistent" /\ m.health = 0}]
    /\ env \in [PairNames -> BOOLEAN]
    /\ status = [t \in PairNames |-> "stopped"]
    /\ healthStatus = [t \in PairNames |-> ""]
    /\ healthFailures = [t \in PairNames |-> 0]
    /\ repls = <<>>
    /\ queues = <<>>
    /\ healthCancels = <<>>
    /\ mu = "free"
    /\ child = [c \in ChildIds |-> NoProc]
    /\ sup = [c \in ChildIds |-> NoSup]
    /\ proc = [p \in PairProcs |-> Idle]
    /\ NoParse
    /\ NoStore
    /\ NoBroker
    /\ NoRest

NextPair ==
    \/ \E p \in PairProcs, t \in PairNames, envOk \in BOOLEAN : CallBegin(p, t, "run", envOk, TRUE)
    \/ \E p \in PairProcs : CallLookup(p)
    \/ \E p \in PairProcs, o \in {"ok", "ToolError", "TransportError", "Died"} : CallInvoke(p, o)
    \/ \E p \in PairProcs : Return(p)
    \/ \E p \in PairProcs, t \in PairNames : Start(p, t)
    \/ \E p \in PairProcs, envOk, spawnOk, bootOk \in BOOLEAN : StartLocked(p, envOk, spawnOk, bootOk)
    \/ \E p \in PairProcs, t \in PairNames : Stop(p, t)
    \/ \E p \in PairProcs : StopLocked(p)

SpecPair == InitPair /\ [][NextPair]_vars

\* ---------------------------------------------------------- reply parsing
\* Texts of the eval channel are sequences over this alphabet. "{T" is the
\* text of an ok=true envelope up to the opening quote of its string result,
\* "{F" the text of an ok=false envelope up to the opening quote of its
\* error message (error type "E"), "}" the closing quote and braces, "{}" an
\* ok=false envelope without error object, "x" a letter; the space, the two
\* quotes and the backslash are themselves.
Chars == {" ", "'", "\"", "\\", "x", "{T", "{F", "}", "{}"}
\* Longest text the channel delivers.
MaxText == 4

RECURSIVE SeqsUpTo(_)
SeqsUpTo(n) ==
    IF n = 0 THEN {<<>>}
    ELSE LET shorter == SeqsUpTo(n - 1) IN
         shorter \cup {Append(s, c) : s \in {x \in shorter : Len(x) = n - 1}, c \in Chars}

Texts == SeqsUpTo(MaxText)

\* strings.TrimSpace.
RECURSIVE TrimLeft(_)
TrimLeft(s) == IF s # <<>> /\ Head(s) = " " THEN TrimLeft(Tail(s)) ELSE s

RECURSIVE TrimRight(_)
TrimRight(s) ==
    IF s # <<>> /\ s[Len(s)] = " " THEN TrimRight(SubSeq(s, 1, Len(s) - 1)) ELSE s

TrimSpace(s) == TrimRight(TrimLeft(s))

\* "Remove outer quotes if present": one pair of equal quotes around a text
\* of two characters or more.
Unquote(s) ==
    IF /\ Len(s) >= 2
       /\ \/ s[1] = "'" /\ s[Len(s)] = "'"
          \/ s[1] = "\"" /\ s[Len(s)] = "\""
    THEN SubSeq(s, 2, Len(s) - 1)
    ELSE s

\* strings.ReplaceAll(s, `\` + q, q): left to right, without overlap.
RECURSIVE ReplaceAll(_, _)
ReplaceAll(s, q) ==
    IF s = <<>> THEN <<>>
    ELSE IF Len(s) >= 2 /\ s[1] = "\\" /\ s[2] = q
         THEN <<q>> \o ReplaceAll(SubSeq(s, 3, Len(s)), q)
         ELSE <<Head(s)>> \o ReplaceAll(Tail(s), q)

\* "Handle Python string escaping".
Unescape(s) == ReplaceAll(ReplaceAll(s, "'"), "\"")

\* The characters between the quotes of a JSON string: plain characters and
\* the escapes \" and \; a bare double quote ends the string early.
RECURSIVE IsStringBody(_)
IsStringBody(s) ==
    IF s = <<>> THEN TRUE
    ELSE IF Head(s) = "\\"
         THEN Len(s) >= 2 /\ s[2] \in {"\"", "\\"} /\ IsStringBody(SubSeq(s, 3, Len(s)))
         ELSE Head(s) \in {" ", "'", "x"} /\ IsStringBody(Tail(s))

\* The string a JSON string body stands for.
RECURSIVE StringValue(_)
StringValue(s) ==
    IF s = <<>> THEN <<>>
    ELSE IF Head(s) = "\\"
         THEN <<s[2]>> \o StringValue(SubSeq(s, 3, Len(s)))
         ELSE <<Head(s)>> \o StringValue(Tail(s))

\* json.Unmarshal into CallResponse: white space around the document is
\* skipped; anything that is not one JSON object is an error.
Unmarshal(s) ==
    LET d == TrimSpace(s)
        bad == [valid |-> FALSE, ok |-> FALSE, error |-> FALSE, body |-> <<>>] IN
    IF d = <<"{}">> THEN [valid |-> TRUE, ok |-> FALSE, error |-> FALSE, body |-> <<>>]
    ELSE IF Len(d) >= 2 /\ d[1] \in {"{T", "{F"} /\ d[Len(d)] = "}"
              /\ IsStringBody(SubSeq(d, 2, Len(d) - 1))
         THEN [valid |-> TRUE, ok |-> d[1] = "{T", error |-> d[1] = "{F",
               body |-> StringValue(SubSeq(d, 2, Len(d) - 1))]
         ELSE bad

\* What a call returns: err is "none" for a result, otherwise the kind of
\* failure; val is the returned value or the failure's message.
Raw(text) == [err |-> "none", val |-> <<"raw", text>>]
Value(v) == [err |-> "none", val |-> <<"result", v>>]
ToolFailure(msg) == [err |-> "tool", val |-> <<"E", msg>>]
UnknownFailure == [err |-> "unknown", val |-> <<>>]
ChannelFailure == [err |-> "channel", val |-> <<>>]
Handed(v) == [err |-> "none", val |-> <<"value", v>>]

\* C13 mutant: the ok field is not looked at.
parseResponseTrusting(text) ==
    LET resp == Unmarshal(Unescape(Unquote(TrimSpace(text)))) IN
    IF ~resp.valid THEN Raw(text)
    ELSE Value(resp.body)

\* Executor.parseResponse.
parseResponse(text) ==
    LET resp == Unmarshal(Unescape(Unquote(TrimSpace(text)))) IN
    IF ~resp.valid THEN Raw(text)
    ELSE IF ~resp.ok THEN
        IF resp.error THEN ToolFailure(resp.body) ELSE UnknownFailure
    ELSE Value(resp.body)

\* What the framed channel hands back from queue.Call: an envelope (ok=true
\* with a result, ok=false with an error, ok=false without) or a plain value.
FramedValues ==
    [kind : {"envelope"}, ok : BOOLEAN, error : BOOLEAN, body : {<<"x">>}]
        \cup {[kind |-> "plain", ok |-> FALSE, error |-> FALSE, body |-> <<"x">>]}

\* One call on either channel: the channel fails (err), or delivers a text
\* on the eval channel, a value on the framed channel.
InitParse ==
    /\ reply \in [transport : {"repl"}, err : BOOLEAN, data : Texts]
                    \cup [transport : {"msgpack"}, err : BOOLEAN, data : FramedValues]
    /\ result = NoResult
    /\ NoExec
    /\ NoStore
    /\ NoBroker
    /\ NoRest

\* Executor.doCall after repl.Execute has returned.
doCall ==
    /\ reply.transport = "repl"
    /\ result = NoResult
    /\ result' = IF reply.err THEN ChannelFailure ELSE parseResponse(reply.data)
    /\ UNCHANGED <<reply, execVars, storeVars, brokerVars, restVars>>

\* Executor.doQueueCall after queue.Call has returned: the value is handed
\* on as it came.
doQueueCall ==
    /\ reply.transport = "msgpack"
    /\ result = NoResult
    /\ result' = IF reply.err THEN ChannelFailure
                 ELSE Handed(reply.data)
    /\ UNCHANGED <<reply, execVars, storeVars, brokerVars, restVars>>

NextParse == doCall \/ doQueueCall

SpecParse == InitParse /\ [][NextParse]_vars

\* ------------------------------------------------------------- file store
\* Files that may be imported in one behaviour.
MaxFiles == 2
\* Last second the clock reaches.
MaxTime == 2

FileIds == 1..MaxFiles
\* Goroutines calling the store at once: one that changes it and one that
\* lists it.
Writers == {"w1"}
Readers == {"r1"}
StoreProcs == Writers \cup Readers
\* The name under which gcLoop holds Store.mu.
Collector == "gc"

SIdle == [pc |-> "idle", op |-> "none", id |-> 0, name |-> "", ttl |-> 0,
          all |-> FALSE, res |-> "none", list |-> <<>>]
\* n counts the rows the current or the last run has deleted.
GcIdle == [pc |-> "idle", T |-> 0, expired |-> <<>>, errs |-> FALSE, n |-> 0]

\* filestore.New over an empty base directory: no rows, no blobs, the GC
\* goroutine started.
InitStore ==
    /\ rows = <<>>
    /\ blobs = <<>>
    /\ nextId = 1
    /\ smu = [w |-> "free", r |-> {}]
    /\ now = 1
    /\ sproc = [p \in StoreProcs |-> SIdle]
    /\ gc = GcIdle
    /\ NoExec
    /\ NoParse
    /\ NoBroker
    /\ NoRest

\* sync.RWMutex: Lock waits for the writer and the readers to leave, RLock
\* for the writer.
CanLock == smu.w = "free" /\ smu.r = {}
CanRLock == smu.w = "free"
Unlocked == [smu EXCEPT !.w = "free"]

\* The ids of S, largest first: the ids grow with created_at, so this is an
\* order the ORDER BY created_at DESC of List can give.
RECURSIVE Desc(_)
Desc(S) ==
    IF S = {} THEN <<>>
    ELSE LET m == CHOOSE x \in S : \A y \in S : y <= x IN <<m>> \o Desc(S \ {m})

\* expires_at for a ttl given at this moment.
ExpiresAt(ttl) == IF ttl > 0 THEN now + ttl ELSE 0

\* The call of p returns r; of its arguments the id is kept with the answer.
SDone(p, r) ==
    [sproc EXCEPT ![p] = [SIdle EXCEPT !.pc = "done", !.op = sproc[p].op,
                                       !.id = sproc[p].id, !.res = r]]

\* A goroutine that is not inside a call calls one of the store's methods;
\* Import is capped by the number of files of the model.
Invoke(p, op, id, name, ttl, all) ==
    /\ sproc[p].pc \in {"idle", "done"}
    /\ op = "Import" => nextId <= MaxFiles
    /\ sproc' = [sproc EXCEPT ![p] =
                    [SIdle EXCEPT !.pc = "wait", !.op = op, !.id = id, !.name = name,
                                  !.ttl = ttl, !.all = all]]
    /\ UNCHANGED <<rows, blobs, nextId, smu, now, gc, execVars, parseVars, brokerVars, restVars>>

\* The methods that take the read lock.
ReadOps == {"List", "GetPath", "Info"}

\* s.mu.Lock() of Import, Rename, Delete and SetTTL.
Lock(p) ==
    /\ sproc[p].pc = "wait"
    /\ sproc[p].op \notin ReadOps
    /\ CanLock
    /\ smu' = [smu EXCEPT !.w = p]
    /\ sproc' = [sproc EXCEPT ![p].pc = "locked"]
    /\ UNCHANGED <<rows, blobs, nextId, now, gc, execVars, parseVars, brokerVars, restVars>>

\* s.mu.RLock() of List, GetPath and Info.
RLock(p) ==
    /\ sproc[p].pc = "wait"
    /\ sproc[p].op \in ReadOps
    /\ CanRLock
    /\ smu' = [smu EXCEPT !.r = @ \cup {p}]
    /\ sproc' = [sproc EXCEPT ![p].pc = "locked"]
    /\ UNCHANGED <<rows, blobs, nextId, now, gc, execVars, parseVars, brokerVars, restVars>>

\* C17 mutant: the row is inserted when the blob is created, before the copy;
\* a failed copy removes the blob alone.
ImportRowFirst(p, srcOk, createOk, copyOk, rmOk) ==
    /\ sproc[p].pc = "locked"
    /\ sproc[p].op = "Import"
    /\ IF ~srcOk \/ ~createOk THEN
            /\ sproc' = SDone(p, IF srcOk THEN "CreateFailed" ELSE "OpenFailed")
            /\ smu' = Unlocked
            /\ UNCHANGED <<rows, blobs, nextId>>
       ELSE IF ~copyOk THEN
            /\ sproc' = SDone(p, "CopyFailed")
            /\ smu' = Unlocked
            /\ rows' = With(rows, nextId, [name |-> sproc[p].name, exp |-> ExpiresAt(sproc[p].ttl)])
            /\ blobs' = IF rmOk THEN blobs ELSE With(blobs, nextId, "empty")
            /\ nextId' = nextId + 1
       ELSE
            /\ sproc' = [sproc EXCEPT ![p].pc = "insert", ![p].id = nextId]
            /\ blobs' = With(blobs, nextId, "full")
            /\ nextId' = nextId + 1
            /\ UNCHANGED <<rows, smu>>
    /\ UNCHANGED <<now, gc, execVars, parseVars, brokerVars, restVars>>

\* Store.Import up to the INSERT: the source is opened, the blob created
\* under a fresh id and the bytes copied; a failed copy removes the blob
\* (the error of os.Remove is dropped).
Import(p, srcOk, createOk, copyOk, rmOk) ==
    /\ sproc[p].pc = "locked"
    /\ sproc[p].op = "Import"
    /\ IF ~srcOk \/ ~createOk THEN
            /\ sproc' = SDone(p, IF srcOk THEN "CreateFailed" ELSE "OpenFailed")
            /\ smu' = Unlocked
            /\ UNCHANGED <<rows, blobs, nextId>>
       ELSE IF ~copyOk THEN
            /\ sproc' = SDone(p, "CopyFailed")
            /\ smu' = Unlocked
            /\ blobs' = IF rmOk THEN blobs ELSE With(blobs, nextId, "empty")
            /\ nextId' = nextId + 1
            /\ rows' = rows
       ELSE
            /\ sproc' = [sproc EXCEPT ![p].pc = "insert", ![p].id = nextId]
            /\ blobs' = With(blobs, nextId, "full")
            /\ nextId' = nextId + 1
            /\ UNCHANGED <<rows, smu>>
    /\ UNCHANGED <<now, gc, execVars, parseVars, brokerVars, restVars>>

\* C14 mutant: a failed INSERT leaves its row behind and the blob is removed.
ImportInsertKeepsRow(p, dbOk, rmOk) ==
    /\ sproc[p].pc = "insert"
    /\ LET id == sproc[p].id
           name == IF sproc[p].name = "" THEN "src" ELSE sproc[p].name IN
       /\ rows' = With(rows, id, [name |-> name, exp |-> ExpiresAt(sproc[p].ttl)])
       /\ blobs' = IF dbOk \/ ~rmOk THEN blobs ELSE Without(blobs, id)
       /\ sproc' = SDone(p, IF dbOk THEN "ok" ELSE "InsertFailed")
    /\ smu' = Unlocked
    /\ UNCHANGED <<nextId, now, gc, execVars, parseVars, brokerVars, restVars>>

\* Store.Import from the expiration on: the name defaults to the source's
\* base name, the row is inserted, and a failed INSERT removes the blob.
ImportInsert(p, dbOk, rmOk) ==
    /\ sproc[p].pc = "insert"
    /\ LET id == sproc[p].id
           name == IF sproc[p].name = "" THEN "src" ELSE sproc[p].name IN
       IF dbOk THEN
            /\ rows' = With(rows, id, [name |-> name, exp |-> ExpiresAt(sproc[p].ttl)])
            /\ blobs' = blobs
            /\ sproc' = SDone(p, "ok")
       ELSE
            /\ rows' = rows
            /\ blobs' = IF rmOk THEN Without(blobs, id) ELSE blobs
            /\ sproc' = SDone(p, "InsertFailed")
    /\ smu' = Unlocked
    /\ UNCHANGED <<nextId, now, gc, execVars, parseVars, brokerVars, restVars>>

\* The rows List selects: all of them, or those that are permanent or expire
\* after now.
Listed(all) == {i \in DOMAIN rows : all \/ rows[i].exp = 0 \/ rows[i].exp > now}

\* Store.List under the read lock.
List(p, dbOk) ==
    /\ sproc[p].pc = "locked"
    /\ sproc[p].op = "List"
    /\ sproc' = IF dbOk
                THEN [SDone(p, "ok") EXCEPT ![p].all = sproc[p].all,
                                            ![p].list = Desc(Listed(sproc[p].all))]
                ELSE SDone(p, "QueryFailed")
    /\ smu' = [smu EXCEPT !.r = @ \ {p}]
    /\ UNCHANGED <<rows, blobs, nextId, now, gc, execVars, parseVars, brokerVars, restVars>>

\* What a SELECT of the row of one id comes to: a database error, no row, or
\* the row.
Selected(id, dbOk) ==
    IF ~dbOk THEN "Failed" ELSE IF id \notin DOMAIN rows THEN "NotFound" ELSE "ok"

\* Store.GetPath under the read lock: the path {blobs}/{id} if the row is
\* there; expires_at is not looked at.
GetPath(p, dbOk) ==
    /\ sproc[p].pc = "locked"
    /\ sproc[p].op = "GetPath"
    /\ sproc' = SDone(p, Selected(sproc[p].id, dbOk))
    /\ smu' = [smu EXCEPT !.r = @ \ {p}]
    /\ UNCHANGED <<rows, blobs, nextId, now, gc, execVars, parseVars, brokerVars, restVars>>

\* C40 mutant: a row whose expires_at has passed is not found.
InfoHidesExpired(p, dbOk) ==
    /\ sproc[p].pc = "locked"
    /\ sproc[p].op = "Info"
    /\ LET id == sproc[p].id
           r == Selected(id, dbOk) IN
       sproc' = IF r = "ok" /\ id \in Listed(FALSE)
                THEN [SDone(p, r) EXCEPT ![p].name = rows[id].name, ![p].ttl = rows[id].exp]
                ELSE SDone(p, IF r = "ok" THEN "NotFound" ELSE r)
    /\ smu' = [smu EXCEPT !.r = @ \ {p}]
    /\ UNCHANGED <<rows, blobs, nextId, now, gc, execVars, parseVars, brokerVars, restVars>>

\* Store.Info under the read lock: the row of the id, its name and
\* expires_at (kept in name and ttl of the answer); expires_at is not
\* compared with the time.
Info(p, dbOk) ==
    /\ sproc[p].pc = "locked"
    /\ sproc[p].op = "Info"
    /\ LET id == sproc[p].id
           r == Selected(id, dbOk) IN
       sproc' = IF r = "ok"
                THEN [SDone(p, r) EXCEPT ![p].name = rows[id].name, ![p].ttl = rows[id].exp]
                ELSE SDone(p, r)
    /\ smu' = [smu EXCEPT !.r = @ \ {p}]
    /\ UNCHANGED <<rows, blobs, nextId, now, gc, execVars, parseVars, brokerVars, restVars>>

\* What an UPDATE or DELETE on one id comes to: the statement fails, touches
\* no row, or touches the row.
Affected(id, dbOk) ==
    IF ~dbOk THEN "Failed" ELSE IF id \notin DOMAIN rows THEN "NotFound" ELSE "ok"

\* Store.Rename.
Rename(p, dbOk) ==
    /\ sproc[p].pc = "locked"
    /\ sproc[p].op = "Rename"
    /\ LET id == sproc[p].id IN
       /\ rows' = IF Affected(id, dbOk) = "ok"
                  THEN [rows EXCEPT ![id].name = sproc[p].name] ELSE rows
       /\ sproc' = SDone(p, Affected(id, dbOk))
    /\ smu' = Unlocked
    /\ UNCHANGED <<blobs, nextId, now, gc, execVars, parseVars, brokerVars, restVars>>

\* Store.SetTTL.
SetTTL(p, dbOk) ==
    /\ sproc[p].pc = "locked"
    /\ sproc[p].op = "SetTTL"
    /\ LET id == sproc[p].id IN
       /\ rows' = IF Affected(id, dbOk) = "ok"
                  THEN [rows EXCEPT ![id].exp = ExpiresAt(sproc[p].ttl)] ELSE rows
       /\ sproc' = SDone(p, Affected(id, dbOk))
    /\ smu' = Unlocked
    /\ UNCHANGED <<blobs, nextId, now, gc, execVars, parseVars, brokerVars, restVars>>

\* C16 mutant: the count of affected rows is not looked at.
deleteLockedBlind(id, dbOk, rmOk) ==
    IF ~dbOk THEN [res |-> "Failed", rows |-> rows, blobs |-> blobs]
    ELSE [res |-> "ok", rows |-> Without(rows, id),
          blobs |-> IF rmOk THEN Without(blobs, id) ELSE blobs]

\* Store.deleteLocked: the row first; "not found" when no row was deleted;
\* then the blob (the error of os.Remove is dropped).
deleteLocked(id, dbOk, rmOk) ==
    IF Affected(id, dbOk) # "ok"
    THEN [res |-> Affected(id, dbOk), rows |-> rows, blobs |-> blobs]
    ELSE [res |-> "ok", rows |-> Without(rows, id),
          blobs |-> IF rmOk THEN Without(blobs, id) ELSE blobs]

\* Store.Delete.
Delete(p, dbOk, rmOk) ==
    /\ sproc[p].pc = "locked"
    /\ sproc[p].op = "Delete"
    /\ LET d == deleteLocked(sproc[p].id, dbOk, rmOk) IN
       /\ rows' = d.rows
       /\ blobs' = d.blobs
       /\ sproc' = SDone(p, d.res)
    /\ smu' = Unlocked
    /\ UNCHANGED <<nextId, now, gc, execVars, parseVars, brokerVars, restVars>>

\* C39 mutant: the scan does not leave out the permanent rows.
ExpiredOrPermanent(T) == {i \in DOMAIN rows : rows[i].exp <= T}

\* The rows the scan of runGC selects at time T.
Expired(T) == {i \in DOMAIN rows : rows[i].exp > 0 /\ rows[i].exp <= T}

\* C15 mutant: the scan selects the rows that expire before now only.
runGCStrict(dbOk) ==
    /\ gc.pc = "idle"
    /\ CanLock
    /\ LET ids == {i \in DOMAIN rows : rows[i].exp > 0 /\ rows[i].exp < now} IN
       IF dbOk /\ ids # {}
       THEN /\ gc' = [pc |-> "sweep", T |-> now, expired |-> Desc(ids),
                      errs |-> FALSE, n |-> 0]
            /\ smu' = [smu EXCEPT !.w = Collector]
       ELSE /\ gc' = [pc |-> "idle", T |-> now, expired |-> <<>>,
                      errs |-> ~dbOk, n |-> 0]
            /\ smu' = smu
    /\ UNCHANGED <<rows, blobs, nextId, now, sproc, execVars, parseVars, brokerVars, restVars>>

\* The ticker of Store.gcLoop fires, and Store.runGC up to the loop over the
\* expired ids: the lock, the time, the scan. A failed scan, or one that
\* selects nothing, ends the run.
runGC(dbOk) ==
    /\ gc.pc = "idle"
    /\ CanLock
    /\ IF dbOk /\ Expired(now) # {}
       THEN /\ gc' = [pc |-> "sweep", T |-> now, expired |-> Desc(Expired(now)),
                      errs |-> FALSE, n |-> 0]
            /\ smu' = [smu EXCEPT !.w = Collector]
       ELSE /\ gc' = [pc |-> "idle", T |-> now, expired |-> <<>>,
                      errs |-> ~dbOk, n |-> 0]
            /\ smu' = smu
    /\ UNCHANGED <<rows, blobs, nextId, now, sproc, execVars, parseVars, brokerVars, restVars>>

\* The loop of runGC: deleteLocked on the next expired id, its error dropped;
\* after the last one the deferred Unlock ends the run. errs keeps whether a
\* statement or a removal of this run has failed.
gcDelete(dbOk, rmOk) ==
    /\ gc.pc = "sweep"
    /\ LET id == Head(gc.expired)
           d == deleteLocked(id, dbOk, rmOk)
           last == Len(gc.expired) = 1 IN
       /\ rows' = d.rows
       /\ blobs' = d.blobs
       /\ gc' = [gc EXCEPT !.pc = IF last THEN "idle" ELSE "sweep",
                           !.expired = Tail(gc.expired),
                           !.errs = @ \/ d.res # "ok" \/ ~rmOk,
                           !.n = IF d.res = "ok" THEN @ + 1 ELSE @]
       /\ smu' = IF last THEN Unlocked ELSE smu
    /\ UNCHANGED <<nextId, now, sproc, execVars, parseVars, brokerVars, restVars>>

\* A second passes.
Tick ==
    /\ now < MaxTime
    /\ now' = now + 1
    /\ UNCHANGED <<rows, blobs, nextId, smu, sproc, gc, execVars, parseVars, brokerVars, restVars>>

\* The store with one goroutine changing it and the GC goroutine.
NextStore ==
    \/ \E p \in Writers, ttl \in {0, 1} : Invoke(p, "Import", 0, "", ttl, FALSE)
    \/ \E p \in Writers, id \in FileIds : Invoke(p, "Rename", id, "m", 0, FALSE)
    \/ \E p \in Writers, id \in FileIds : Invoke(p, "Delete", id, "", 0, FALSE)
    \/ \E p \in Writers, id \in FileIds, ttl \in {0, 1} : Invoke(p, "SetTTL", id, "", ttl, FALSE)
    \/ \E p \in Writers : Lock(p)
    \/ \E p \in Writers, srcOk, createOk, copyOk, rmOk \in BOOLEAN :
           Import(p, srcOk, createOk, copyOk, rmOk)
    \/ \E p \in Writers, dbOk, rmOk \in BOOLEAN : ImportInsert(p, dbOk, rmOk)
    \/ \E p \in Writers, dbOk \in BOOLEAN : Rename(p, dbOk)
    \/ \E p \in Writers, dbOk \in BOOLEAN : SetTTL(p, dbOk)
    \/ \E p \in Writers, dbOk, rmOk \in BOOLEAN : Delete(p, dbOk, rmOk)
    \/ \E dbOk \in BOOLEAN : runGC(dbOk)
    \/ \E dbOk, rmOk \in BOOLEAN : gcDelete(dbOk, rmOk)
    \/ Tick

SpecStore == InitStore /\ [][NextStore]_vars

\* The store with one goroutine importing and deleting and one listing.
NextList ==
    \/ \E p \in Writers, ttl \in {0, 1} : Invoke(p, "Import", 0, "", ttl, FALSE)
    \/ \E p \in Writers, id \in FileIds : Invoke(p, "Delete", id, "", 0, FALSE)
    \/ \E p \in Readers, all \in BOOLEAN : Invoke(p, "List", 0, "", 0, all)
    \/ \E p \in Writers : Lock(p)
    \/ \E p \in Readers : RLock(p)
    \/ \E p \in Writers, srcOk, createOk, copyOk, rmOk \in BOOLEAN :
           Import(p, srcOk, createOk, copyOk, rmOk)
    \/ \E p \in Writers, dbOk, rmOk \in BOOLEAN : ImportInsert(p, dbOk, rmOk)
    \/ \E p \in Writers, dbOk, rmOk \in BOOLEAN : Delete(p, dbOk, rmOk)
    \/ \E p \in Readers, dbOk \in BOOLEAN : List(p, dbOk)
    \/ Tick

SpecList == InitStore /\ [][NextList]_vars

\* The store with one goroutine importing, deleting and setting the TTL, one
\* reading, and the GC goroutine.
NextRead ==
    \/ \E p \in Writers : Invoke(p, "Import", 0, "", 1, FALSE)
    \/ \E p \in Writers, id \in FileIds : Invoke(p, "Delete", id, "", 0, FALSE)
    \/ \E p \in Writers, id \in FileIds, ttl \in {0, 1} : Invoke(p, "SetTTL", id, "", ttl, FALSE)
    \/ \E p \in Readers : Invoke(p, "List", 0, "", 0, FALSE)
    \/ \E p \in Readers, id \in FileIds : Invoke(p, "GetPath", id, "", 0, FALSE)
    \/ \E p \in Readers, id \in FileIds : Invoke(p, "Info", id, "", 0, FALSE)
    \/ \E p \in Writers : Lock(p)
    \/ \E p \in Readers : RLock(p)
    \/ \E p \in Writers, srcOk, createOk, copyOk, rmOk \in BOOLEAN :
           Import(p, srcOk, createOk, copyOk, rmOk)
    \/ \E p \in Writers, dbOk, rmOk \in BOOLEAN : ImportInsert(p, dbOk, rmOk)
    \/ \E p \in Writers, dbOk \in BOOLEAN : SetTTL(p, dbOk)
    \/ \E p \in Writers, dbOk, rmOk \in BOOLEAN : Delete(p, dbOk, rmOk)
    \/ \E p \in Readers, dbOk \in BOOLEAN : List(p, dbOk)
    \/ \E p \in Readers, dbOk \in BOOLEAN : GetPath(p, dbOk)
    \/ \E p \in Readers, dbOk \in BOOLEAN : Info(p, dbOk)
    \/ \E dbOk \in BOOLEAN : runGC(dbOk)
    \/ \E dbOk, rmOk \in BOOLEAN : gcDelete(dbOk, rmOk)
    \/ Tick

SpecRead == InitStore /\ [][NextRead]_vars

\* ------------------------------------------------------------------ broker
\* The broker: Broker.children, Broker.toolMap, the handlers of
\* /v1/broker/register, /v1/broker/heartbeat and /v1/tools/{name}/..., and the
\* cleanup goroutine. Every method of Broker holds Broker.mu for its whole
\* body, so each call of one is a step. Time is counted in cleanup intervals
\* (30 s): the age of a child is the number of cleanup runs since its last
\* heartbeat reached the broker.
ServerIds == {"c1", "c2"}
ToolSet == {"t1", "t2"}
\* The base URL each child server registers with.
UrlOf == [id \in ServerIds |-> IF id = "c1" THEN "u1" ELSE "u2"]

\* Broker.cleanupInterval, the unit of time.
cleanupInterval == 1
\* Broker.heartbeatTimeout: 60 s, two cleanup intervals.
heartbeatTimeout == 2
\* From this age on a child is treated alike at every cleanup.
MaxAge == 3 * heartbeatTimeout + cleanupInterval

HbIdle == [pc |-> "idle", id |-> "none", tools |-> {}, url |-> "none",
           attached |-> FALSE, res |-> 0]
PxIdle == [pc |-> "idle", tool |-> "none", owner |-> "none", target |-> "none",
           sent |-> <<>>, code |-> 0]

\* broker.NewServer: no children, an empty reverse index.
InitBroker ==
    /\ children = <<>>
    /\ toolMap = <<>>
    /\ lastClaim = <<>>
    /\ hb = HbIdle
    /\ px = PxIdle
    /\ NoExec
    /\ NoParse
    /\ NoStore
    /\ NoRest

\* The children map and the reverse index as they are now.
Broker == [children |-> children, toolMap |-> toolMap]

\* Broker.Register of the struct c = [id, url, tools] on the maps S.
RegisterIn(S, c) ==
    [children |-> With(S.children, c.id,
                       [url |-> c.url, tools |-> c.tools, status |-> "healthy", age |-> 0]),
     toolMap |-> [t \in DOMAIN S.toolMap \cup c.tools |->
                     IF t \in c.tools THEN c.id ELSE S.toolMap[t]]]

\* C18 mutant: Register leaves the entry of a tool that has an owner.
RegisterKeepFirst(c) ==
    [children |-> With(children, c.id,
                       [url |-> c.url, tools |-> c.tools, status |-> "healthy", age |-> 0]),
     toolMap |-> [t \in DOMAIN toolMap \cup c.tools |->
                     IF t \in DOMAIN toolMap THEN toolMap[t] ELSE c.id]]

\* Broker.Register of the struct c = [id, url, tools]: the times are set to
\* now, the status to healthy, the struct is stored under its id and each of
\* its tools is mapped to the id.
Register(c) == RegisterIn(Broker, c)

\* The child that made the latest Register call naming each tool (history,
\* kept for the statements about the reverse index).
Claimed(c) ==
    [t \in DOMAIN lastClaim \cup c.tools |-> IF t \in c.tools THEN c.id ELSE lastClaim[t]]

\* Server.handleRegister with an id and a url: a new ChildServer is built from
\* the request and registered. A heartbeat handler that holds the struct the
\* id had before now holds a struct the map no longer points to.
handleRegister(id, tools) ==
    /\ LET c == [id |-> id, url |-> UrlOf[id], tools |-> tools] IN
       /\ children' = Register(c).children
       /\ toolMap' = Register(c).toolMap
       /\ lastClaim' = Claimed(c)
    /\ hb' = IF hb.id = id THEN [hb EXCEPT !.attached = FALSE] ELSE hb
    /\ UNCHANGED <<px, execVars, parseVars, storeVars, restVars>>

\* Server.handleHeartbeat up to GetChild: with a tool list and a registered
\* id the handler takes the child's struct, otherwise it goes on to Heartbeat.
HbGetChild(id, tools) ==
    /\ hb.pc = "idle"
    /\ hb' = IF tools # {} /\ id \in DOMAIN children
             THEN [pc |-> "settools", id |-> id, tools |-> tools,
                   url |-> children[id].url, attached |-> TRUE, res |-> 0]
             ELSE [HbIdle EXCEPT !.pc = "beat", !.id = id]
    /\ UNCHANGED <<children, toolMap, lastClaim, px, execVars, parseVars, storeVars, restVars>>

\* child.Tools = req.Tools, outside the lock: the map sees it if it still
\* points to this struct.
HbSetTools ==
    /\ hb.pc = "settools"
    /\ children' = IF hb.attached THEN [children EXCEPT ![hb.id].tools = hb.tools]
                   ELSE children
    /\ hb' = [hb EXCEPT !.pc = "register"]
    /\ UNCHANGED <<toolMap, lastClaim, px, execVars, parseVars, storeVars, restVars>>

\* s.broker.Register(child) of handleHeartbeat.
HbRegister ==
    /\ hb.pc = "register"
    /\ LET c == [id |-> hb.id, url |-> hb.url, tools |-> hb.tools] IN
       /\ children' = Register(c).children
       /\ toolMap' = Register(c).toolMap
       /\ lastClaim' = Claimed(c)
    /\ hb' = [hb EXCEPT !.pc = "beat", !.attached = TRUE]
    /\ UNCHANGED <<px, execVars, parseVars, storeVars, restVars>>

\* C21 mutant: a child that was silent is marked healthy by its second
\* heartbeat only.
HeartbeatOfLate(S, id) ==
    IF id \in DOMAIN S.children
    THEN [S EXCEPT !.children[id].status = IF S.children[id].age = 0 THEN "healthy" ELSE @,
                   !.children[id].age = 0]
    ELSE S

\* Broker.Heartbeat of id on the maps S: nothing for an unknown id, otherwise
\* the last heartbeat is now and the status healthy.
HeartbeatOf(S, id) ==
    IF id \in DOMAIN S.children
    THEN [S EXCEPT !.children[id].age = 0, !.children[id].status = "healthy"]
    ELSE S

\* Broker.Heartbeat and the reply of handleHeartbeat: 404 for an unknown id.
Heartbeat ==
    /\ hb.pc = "beat"
    /\ children' = HeartbeatOf(Broker, hb.id).children
    /\ hb' = [HbIdle EXCEPT !.res = IF hb.id \in DOMAIN children THEN 200 ELSE 404]
    /\ UNCHANGED <<toolMap, lastClaim, px, execVars, parseVars, storeVars, restVars>>

\* Server.handleHeartbeat run from its first statement to its last with no
\* other request and no cleanup in between, on the maps S.
handleHeartbeat(S, id, tools) ==
    HeartbeatOf(IF tools # {} /\ id \in DOMAIN S.children
                THEN RegisterIn(S, [id |-> id, url |-> S.children[id].url, tools |-> tools])
                ELSE S,
                id)

\* Most heartbeats in a row that are compared with one.
MaxBeats == 3

\* n heartbeats of the same request, one after the other.
RECURSIVE Beats(_, _, _, _)
Beats(S, id, tools, n) ==
    IF n = 0 THEN S ELSE Beats(handleHeartbeat(S, id, tools), id, tools, n - 1)

\* The maps without the timestamps.
NoTimes(S) ==
    [children |-> [id \in DOMAIN S.children |->
                      [url |-> S.children[id].url, tools |-> S.children[id].tools,
                       status |-> S.children[id].status]],
     toolMap |-> S.toolMap]

\* C19 mutant: the status of the owner is not looked at.
GetChildForToolAnyStatus(t) ==
    IF t \notin DOMAIN toolMap THEN "none"
    ELSE IF toolMap[t] \notin DOMAIN children THEN "none"
    ELSE toolMap[t]

\* Broker.GetChildForTool: the id of the child, or "none" for false.
GetChildForTool(t) ==
    IF t \notin DOMAIN toolMap THEN "none"
    ELSE IF toolMap[t] \notin DOMAIN children THEN "none"
    ELSE IF children[toolMap[t]].status # "healthy" THEN "none"
    ELSE toolMap[t]

\* Broker.ProxyRequest up to the forwarding: 503 when no child is found.
ProxyRequest(t) ==
    /\ px.pc \in {"idle", "done"}
    /\ LET c == GetChildForTool(t) IN
       px' = IF c = "none"
             THEN [PxIdle EXCEPT !.pc = "done", !.tool = t, !.code = 503]
             ELSE [PxIdle EXCEPT !.pc = "forward", !.tool = t, !.owner = c,
                                 !.target = children[c].url]
    /\ UNCHANGED <<children, toolMap, lastClaim, hb, execVars, parseVars, storeVars, restVars>>

\* b.client.Do of ProxyRequest: one request to the child's URL; the child's
\* status is passed on, a transport error becomes 502.
ProxyForward(reached) ==
    /\ px.pc = "forward"
    /\ px' = [px EXCEPT !.pc = "done", !.sent = Append(@, px.target),
                        !.code = IF reached THEN 200 ELSE 502]
    /\ UNCHANGED <<children, toolMap, lastClaim, hb, execVars, parseVars, storeVars, restVars>>

\* The children a cleanup run removes from those of ch.
Dead(ch) ==
    {id \in DOMAIN ch : /\ ch[id].age > heartbeatTimeout
                        /\ ch[id].status # "healthy"
                        /\ ch[id].age > heartbeatTimeout * 3}

\* Broker.cleanupDeadChildren over the children ch: a healthy child silent
\* for more than the timeout turns unhealthy; an unhealthy one silent for
\* more than three timeouts is removed, with the entries of the tools of its
\* list that point to it.
cleanupDeadChildren(ch) ==
    [children |-> [id \in DOMAIN ch \ Dead(ch) |->
                      IF ch[id].age > heartbeatTimeout /\ ch[id].status = "healthy"
                      THEN [ch[id] EXCEPT !.status = "unhealthy"] ELSE ch[id]],
     toolMap |-> [t \in {u \in DOMAIN toolMap :
                           ~(toolMap[u] \in Dead(ch) /\ u \in ch[toolMap[u]].tools)}
                     |-> toolMap[t]]]

\* Broker.cleanupLoop: one more cleanup interval has passed and the ticker
\* runs cleanupDeadChildren.
cleanupLoop ==
    /\ children # <<>>
    /\ LET aged == [id \in DOMAIN children |->
                      [children[id] EXCEPT !.age = IF @ + cleanupInterval > MaxAge
                                                    THEN MaxAge ELSE @ + cleanupInterval]]
           cl == cleanupDeadChildren(aged) IN
       /\ children' = cl.children
       /\ toolMap' = cl.toolMap
       /\ hb' = IF hb.id \in Dead(aged) THEN [hb EXCEPT !.attached = FALSE] ELSE hb
    /\ UNCHANGED <<lastClaim, px, execVars, parseVars, storeVars, restVars>>

\* The broker with its children registering and sending heartbeats.
NextBroker ==
    \/ \E id \in ServerIds, tools \in SUBSET ToolSet : handleRegister(id, tools)
    \/ \E id \in ServerIds, tools \in SUBSET ToolSet : HbGetChild(id, tools)
    \/ HbSetTools
    \/ HbRegister
    \/ Heartbeat
    \/ cleanupLoop

SpecBroker == InitBroker /\ [][NextBroker]_vars

\* The broker with a client of the tools; the heartbeats carry no tool list.
NextProxy ==
    \/ \E id \in ServerIds, tools \in SUBSET ToolSet : handleRegister(id, tools)
    \/ \E id \in ServerIds : HbGetChild(id, {})
    \/ Heartbeat
    \/ \E t \in ToolSet : ProxyRequest(t)
    \/ \E reached \in BOOLEAN : ProxyForward(reached)
    \/ cleanupLoop

SpecProxy == InitBroker /\ [][NextProxy]_vars

\* --------------------------------------------------------------- installer
\* Manager.Install and Manager.LoadAll over a tools root. Install runs from
\* its first statement to its return in one step: the Manager has no lock and
\* the statements about it concern one Install at a time.
InstallNames == {"a", "b"}
Versions == {1, 2}
\* config.Manifest of a source, reduced to its name and version.
SourceManifests == [name : InstallNames, ver : Versions]
\* What stands for the manifest of a source without a loadable jumpboot.yaml.
NoManifest == [name |-> "none", ver |-> 0]
\* A source is a local path or a git URL.
Sources == [kind : {"local", "git"}, manifest : SourceManifests \cup {NoManifest}]
\* The step of an Install that fails, if one does: fetching the source (git
\* clone, MkdirTemp, filepath.Abs), linking or moving it into the tools root,
\* creating the environment, installing the packages.
Faults == {"none", "fetch", "link", "env", "pkg"}

InstIdle == [src |-> [kind |-> "none", manifest |-> NoManifest], res |-> "none", n |-> 0]

\* NewManager and LoadAll over an empty tools root.
InitInstall ==
    /\ catalog = <<>>
    /\ toolsDir = <<>>
    /\ envs = {}
    /\ inst = InstIdle
    /\ NoExec
    /\ NoParse
    /\ NoStore
    /\ NoBroker
    /\ NoServer
    /\ NoClient

\* Manager.LoadAll by a new Manager over the tools root dir: one entry per
\* directory with a loadable manifest, under the manifest's name, with the
\* directory as path and no environment. Every directory of the root was put
\* there by Install under the name of its manifest.
LoadAll(dir) ==
    [k \in {dir[e].name : e \in DOMAIN dir} |->
        LET e == CHOOSE x \in DOMAIN dir : dir[x].name = k IN
        [path |-> e, manifest |-> dir[e], env |-> FALSE]]

\* The names, paths and manifests of a catalogue.
Entries(cat) == [k \in DOMAIN cat |-> [path |-> cat[k].path, manifest |-> cat[k].manifest]]

\* What the Install of src returns; n tells one Install from the next.
InstallReturns(src, r) == [src |-> src, res |-> r, n |-> 1 - inst.n]

\* C24 mutant: Install does not look for a tool of the same name.
InstallOverwrite(src, f) ==
    /\ IF src.manifest = NoManifest \/ f = "fetch" THEN
            /\ inst' = InstallReturns(src, IF f = "fetch" THEN "FetchFailed" ELSE "NoManifest")
            /\ UNCHANGED <<catalog, toolsDir, envs>>
       ELSE LET name == src.manifest.name
                isNew == name \notin envs IN
            IF f = "link" THEN
                /\ inst' = InstallReturns(src, "LinkFailed")
                /\ toolsDir' = Without(toolsDir, name)
                /\ UNCHANGED <<catalog, envs>>
            ELSE IF f = "env" THEN
                /\ inst' = InstallReturns(src, "EnvFailed")
                /\ toolsDir' = Without(toolsDir, name)
                /\ UNCHANGED <<catalog, envs>>
            ELSE IF f = "pkg" /\ isNew THEN
                /\ inst' = InstallReturns(src, "PkgFailed")
                /\ toolsDir' = With(toolsDir, name, src.manifest)
                /\ envs' = envs \cup {name}
                /\ catalog' = catalog
            ELSE
                /\ inst' = InstallReturns(src, "ok")
                /\ toolsDir' = With(toolsDir, name, src.manifest)
                /\ envs' = envs \cup {name}
                /\ catalog' = With(catalog, name,
                                   [path |-> name, manifest |-> src.manifest, env |-> TRUE])
    /\ UNCHANGED <<baseVars, serverVars, clientVars>>

\* Manager.Install of src. installLocal / installGit load the manifest of the
\* source, remove {tools root}/{name} and put the link or the clone there;
\* then the manifest is loaded again, a tool of that name in the catalogue
\* ends the Install with the new directory removed, the environment is
\* created (its failure removes the directory), the packages are installed
\* if the environment is new (their failure returns at once), and the tool is
\* catalogued.
Install(src, f) ==
    /\ IF src.manifest = NoManifest \/ f = "fetch" THEN
            /\ inst' = InstallReturns(src, IF f = "fetch" THEN "FetchFailed" ELSE "NoManifest")
            /\ UNCHANGED <<catalog, toolsDir, envs>>
       ELSE LET name == src.manifest.name
                isNew == name \notin envs IN
            IF f = "link" THEN
                /\ inst' = InstallReturns(src, "LinkFailed")
                /\ toolsDir' = Without(toolsDir, name)
                /\ UNCHANGED <<catalog, envs>>
            ELSE IF name \in DOMAIN catalog THEN
                /\ inst' = InstallReturns(src, "AlreadyInstalled")
                /\ toolsDir' = Without(toolsDir, name)
                /\ UNCHANGED <<catalog, envs>>
            ELSE IF f = "env" THEN
                /\ inst' = InstallReturns(src, "EnvFailed")
                /\ toolsDir' = Without(toolsDir, name)
                /\ UNCHANGED <<catalog, envs>>
            ELSE IF f = "pkg" /\ isNew THEN
                /\ inst' = InstallReturns(src, "PkgFailed")
                /\ toolsDir' = With(toolsDir, name, src.manifest)
                /\ envs' = envs \cup {name}
                /\ catalog' = catalog
            ELSE
                /\ inst' = InstallReturns(src, "ok")
                /\ toolsDir' = With(toolsDir, name, src.manifest)
                /\ envs' = envs \cup {name}
                /\ catalog' = With(catalog, name,
                                   [path |-> name, manifest |-> src.manifest, env |-> TRUE])
    /\ UNCHANGED <<baseVars, serverVars, clientVars>>

\* The process is started again: NewManager and LoadAll.
Restart ==
    /\ catalog' = LoadAll(toolsDir)
    /\ inst' = InstIdle
    /\ UNCHANGED <<toolsDir, envs, baseVars, serverVars, clientVars>>

NextInstall ==
    \/ \E src \in Sources, f \in Faults : Install(src, f)
    \/ Restart

SpecInstall == InitInstall /\ [][NextInstall]_vars

\* ------------------------------------------------------------- API server
\* Server.authMiddleware. A header or query value is the sequence of its
\* words: <<>> is the empty string, <<"Bearer", "T">> is "Bearer T".
Words == {"Bearer", "bearer", "T", "X"}
Credentials == {<<>>} \cup {<<w>> : w \in Words} \cup {<<"Bearer", "T">>, <<"bearer", "T">>,
                                                       <<"Bearer", "X">>}
\* cfg.AuthToken: none, or the token T.
AuthTokens == {<<>>, <<"T">>}
Routes == {"list", "call", "start", "stop"}

\* A request waiting at the middleware.
AuthRequests ==
    [token : AuthTokens, header : Credentials, query : Credentials, route : Routes,
     code : {0}, handed : {"none"}]

InitAuth ==
    /\ auth \in AuthRequests
    /\ up = <<>>
    /\ uploads = {}
    /\ nextUp = 0
    /\ NoExec
    /\ NoParse
    /\ NoStore
    /\ NoBroker
    /\ NoInstall
    /\ NoClient

\* C29 mutant: the query parameter is read although the header is there.
CredentialEither(r) == IF r.query # <<>> THEN r.query ELSE r.header

\* What the middleware compares: the Authorization header, or the token query
\* parameter when the header is empty.
Credential(r) == IF r.header = <<>> THEN r.query ELSE r.header

\* The test of authMiddleware for the request r.
Authorized(r) ==
    \/ r.token = <<>>
    \/ Credential(r) = <<"Bearer">> \o r.token
    \/ Credential(r) = r.token

\* Server.authMiddleware: 401, or the request goes to the mux and the handler
\* of its route.
authMiddleware ==
    /\ auth.code = 0
    /\ auth' = IF Authorized(auth)
               THEN [auth EXCEPT !.code = 200, !.handed = auth.route]
               ELSE [auth EXCEPT !.code = 401]
    /\ UNCHANGED <<up, uploads, nextUp, baseVars, installVars, clientVars>>

NextAuth == authMiddleware

SpecAuth == InitAuth /\ [][NextAuth]_vars

\* Server.handleTool for POST /v1/tools/{name}/{method} with a multipart body,
\* the file manager configured. A request names which of the fields come as
\* file parts, the form value of field f, the member f of the params part,
\* and the fields the method's input schema declares as files.
Fields == {"f", "g"}
\* Temp files that can be spooled before the requests stop.
MaxUploads == 3
UploadRequests ==
    [files : SUBSET Fields, value : {"none", "v"}, json : {"none", "j"},
     schema : {{}, {"f"}}]

\* The handler keeps in temp the temp files created for the request, in
\* stuck those whose removal failed.
\* A parameter handed to the tool: the path of a temp file, or a text.
Path(n) == [file |-> n, text |-> ""]
Text(t) == [file |-> 0, text |-> t]
NoValue == Text("")

UpIdle == [pc |-> "idle", req |-> [files |-> {}, value |-> "none", json |-> "none",
                                   schema |-> {}],
           todo |-> {}, temp |-> {}, stuck |-> {}, params |-> <<>>, code |-> 0, err |-> FALSE]

InitUpload ==
    /\ up = UpIdle
    /\ uploads = {}
    /\ nextUp = 1
    /\ auth = <<>>
    /\ NoExec
    /\ NoParse
    /\ NoStore
    /\ NoBroker
    /\ NoInstall
    /\ NoClient

\* The request arrives and ParseMultipartForm succeeds.
Receive(req) ==
    /\ up.pc \in {"idle", "done"}
    /\ nextUp + Cardinality(req.files) <= MaxUploads + 1
    /\ up' = [UpIdle EXCEPT !.pc = "spool", !.req = req, !.todo = req.files]
    /\ UNCHANGED <<uploads, nextUp, auth, baseVars, installVars, clientVars>>

\* Manager.CleanupAll of the paths: os.Remove on each, the errors dropped;
\* the removals of the files in failing do not succeed.
CleanupAll(dir, paths, failing) == dir \ (paths \ failing)

\* One round of the loop over the file parts, in the order the map gives
\* them: Manager.SaveUpload creates the temp file and copies the part into
\* it. When it fails the files saved so far are cleaned up and the request is
\* answered 400; a failed copy removes its own file first.
SaveUpload(field, fault, failing) ==
    /\ up.pc = "spool"
    /\ field \in up.todo
    /\ failing \subseteq up.temp \cup {nextUp}
    /\ IF fault = "none" THEN
            /\ failing = {}
            /\ uploads' = uploads \cup {nextUp}
            /\ nextUp' = nextUp + 1
            /\ up' = [up EXCEPT !.todo = @ \ {field}, !.temp = @ \cup {nextUp},
                                !.params = With(@, field, Path(nextUp)),
                                !.pc = IF up.todo = {field} THEN "values" ELSE "spool"]
       ELSE IF fault = "create" THEN
            /\ nextUp \notin failing
            /\ uploads' = CleanupAll(uploads, up.temp, failing)
            /\ nextUp' = nextUp
            /\ up' = [up EXCEPT !.pc = "done", !.code = 400, !.params = <<>>,
                                !.stuck = failing]
       ELSE
            /\ uploads' = CleanupAll(uploads \cup {nextUp}, up.temp \cup {nextUp}, failing)
            /\ nextUp' = nextUp + 1
            /\ up' = [up EXCEPT !.pc = "done", !.code = 400, !.params = <<>>,
                                !.temp = @ \cup {nextUp}, !.stuck = failing]
    /\ UNCHANGED <<auth, baseVars, installVars, clientVars>>

\* The values params[f] can end with after the loop over the non-file form
\* values: the value of the form field f and the member f of the params part
\* are written unless the schema declares f a file, in the order the map
\* gives them.
ValueOf(req, before) ==
    IF "f" \in req.schema \/ (req.value = "none" /\ req.json = "none") THEN {before}
    ELSE {Text(t) : t \in {req.value, req.json} \ {"none"}}

\* The loop over r.MultipartForm.Value; a request without file parts comes
\* here at once.
FormValues(val) ==
    /\ \/ up.pc = "values"
       \/ up.pc = "spool" /\ up.todo = {}
    /\ val \in ValueOf(up.req, IF "f" \in DOMAIN up.params THEN up.params["f"] ELSE NoValue)
    /\ up' = [up EXCEPT !.pc = "call",
                        !.params = IF val = NoValue THEN @ ELSE With(@, "f", val)]
    /\ UNCHANGED <<uploads, nextUp, auth, baseVars, installVars, clientVars>>

\* C28 mutant: the temp files are cleaned up after a successful call only.
CallReturnCleanOnSuccess(callOk, failing) ==
    /\ up.pc = "call"
    /\ failing \subseteq up.temp
    /\ callOk \/ failing = {}
    /\ uploads' = IF callOk THEN CleanupAll(uploads, up.temp, failing) ELSE uploads
    /\ up' = [up EXCEPT !.pc = "done", !.code = 200, !.err = ~callOk,
                        !.stuck = failing]
    /\ UNCHANGED <<nextUp, auth, baseVars, installVars, clientVars>>

\* executor.Call returns, the reply is written (an executor error is a reply
\* with an error member), and the deferred CleanupAll runs.
CallReturn(callOk, failing) ==
    /\ up.pc = "call"
    /\ failing \subseteq up.temp
    /\ uploads' = CleanupAll(uploads, up.temp, failing)
    /\ up' = [up EXCEPT !.pc = "done", !.code = 200, !.err = ~callOk,
                        !.stuck = failing]
    /\ UNCHANGED <<nextUp, auth, baseVars, installVars, clientVars>>

NextUpload ==
    \/ \E req \in UploadRequests : Receive(req)
    \/ \E field \in Fields, fault \in {"none", "create", "copy"}, failing \in SUBSET (1..MaxUploads) :
           SaveUpload(field, fault, failing)
    \/ \E val \in {NoValue, Text("v"), Text("j")} \cup {Path(n) : n \in 1..MaxUploads} :
           FormValues(val)
    \/ \E callOk \in BOOLEAN, failing \in SUBSET (1..MaxUploads) : CallReturn(callOk, failing)

SpecUpload == InitUpload /\ [][NextUpload]_vars

\* ------------------------------------------------------------ child client
\* ChildClient: the goroutine that owns the client (main), the channel stopCh,
\* the count of the WaitGroup, and the heartbeatLoop goroutines by the order
\* in which they were started.
\* Goroutines the client can start before the registrations stop.
MaxLoops == 3
LoopIds == 1..MaxLoops

InitClient ==
    /\ client = [main |-> "new", stopCh |-> "open", wg |-> 0,
                 loop |-> [i \in LoopIds |-> "none"]]
    /\ NoExec
    /\ NoParse
    /\ NoStore
    /\ NoBroker
    /\ NoInstall
    /\ NoServer

FreeLoops == {i \in LoopIds : client.loop[i] = "none"}
NewLoop == CHOOSE i \in FreeLoops : \A j \in FreeLoops : i <= j

\* ChildClient.Register after the POST: an error or a status other than 200
\* returns the error; otherwise wg.Add(1) and go c.heartbeatLoop().
Register200(cl, ok) ==
    IF ok THEN [cl EXCEPT !.wg = @ + 1, !.loop[NewLoop] = "select"] ELSE cl

\* Register called by the owner of the client; it may be tried again after a
\* failure.
ClientRegister(ok) ==
    /\ client.main = "new"
    /\ ok => FreeLoops # {}
    /\ client' = [Register200(client, ok) EXCEPT !.main = IF ok THEN "up" ELSE "new"]
    /\ UNCHANGED <<baseVars, installVars, serverVars>>

\* heartbeatLoop, the ticker case of the select.
LoopTick(i) ==
    /\ client.loop[i] = "select"
    /\ client' = [client EXCEPT !.loop[i] = "heartbeat"]
    /\ UNCHANGED <<baseVars, installVars, serverVars>>

\* sendHeartbeat: nil for a 200, an error for a failed POST or another status.
LoopHeartbeat(i, ok) ==
    /\ client.loop[i] = "heartbeat"
    /\ client' = [client EXCEPT !.loop[i] = IF ok THEN "select" ELSE "register"]
    /\ UNCHANGED <<baseVars, installVars, serverVars>>

\* The re-registration after a failed heartbeat: Register called from inside
\* the loop, which then goes back to its select.
LoopRegister(i, ok) ==
    /\ client.loop[i] = "register"
    /\ ok => FreeLoops # {}
    /\ client' = [Register200(client, ok) EXCEPT !.loop[i] = "select"]
    /\ UNCHANGED <<baseVars, installVars, serverVars>>

\* The stopCh case of the select: the loop returns and the deferred wg.Done()
\* runs.
LoopExit(i) ==
    /\ client.loop[i] = "select"
    /\ client.stopCh = "closed"
    /\ client' = [client EXCEPT !.loop[i] = "done", !.wg = @ - 1]
    /\ UNCHANGED <<baseVars, installVars, serverVars>>

\* ChildClient.Stop: close(c.stopCh), then c.wg.Wait().
ClientStop ==
    /\ client.main = "up"
    /\ client' = [client EXCEPT !.stopCh = "closed", !.main = "waiting"]
    /\ UNCHANGED <<baseVars, installVars, serverVars>>

\* wg.Wait() returns once the count is 0.
ClientStopped ==
    /\ client.main = "waiting"
    /\ client.wg = 0
    /\ client' = [client EXCEPT !.main = "stopped"]
    /\ UNCHANGED <<baseVars, installVars, serverVars>>

NextClient ==
    \/ \E ok \in BOOLEAN : ClientRegister(ok)
    \/ \E i \in LoopIds : LoopTick(i)
    \/ \E i \in LoopIds, ok \in BOOLEAN : LoopHeartbeat(i, ok)
    \/ \E i \in LoopIds, ok \in BOOLEAN : LoopRegister(i, ok)
    \/ \E i \in LoopIds : LoopExit(i)
    \/ ClientStop
    \/ ClientStopped

SpecClient == InitClient /\ [][NextClient]_vars

\* ----------------------------------------------------------------- claims
\* The table of the tool's transport.
TransportTable(t) == IF Msgpack(t) THEN queues ELSE repls

\* Handler p has just returned from op.
Returned(p, op) == proc[p].pc = "done" /\ proc[p].op = op

\* This step is handler p returning from the locked part of op.
Unlocks(p, op) ==
    proc[p].pc = "locked" /\ proc[p].op = op /\ proc'[p].pc = "done"

C2_AlwaysNotRunning ==
    \A p \in Procs :
        (/\ Returned(p, "Call")
         /\ Installed(proc[p].tool)
         /\ Persistent(proc[p].tool)
         /\ proc[p].m \in Methods
         /\ ~InTable(proc[p].tool))
            => proc[p].res = "NotRunning"

\* C2 amended: such a Call returns "not running", or the provisioning error
\* when the tool has no environment and EnsureEnvironment fails; the step in
\* which a Call returns either error spawns no child and leaves both process
\* tables, the cancel-token table and the tool's status unchanged.
C2_NotRunningOrEnvError ==
    /\ [][\A p \in Procs :
            (/\ proc[p].pc \in {"idle", "lookup"}
             /\ proc'[p].pc = "done"
             /\ proc'[p].op = "Call"
             /\ Installed(proc'[p].tool)
             /\ Persistent(proc'[p].tool)
             /\ proc'[p].m \in Methods
             /\ ~InTable(proc'[p].tool))
                => (\/ proc'[p].res = "NotRunning"
                    \/ proc'[p].res = "EnvError" /\ ~env[proc'[p].tool])]_vars
    /\ [][\A p \in Procs :
            (/\ proc[p].pc # "done"
             /\ proc'[p].pc = "done"
             /\ proc'[p].op = "Call"
             /\ proc'[p].tool \in ToolNames
             /\ Persistent(proc'[p].tool)
             /\ proc'[p].res \in {"NotRunning", "EnvError"})
                => UNCHANGED <<repls, queues, healthCancels, status, child>>]_vars

\* C2 witness: a Call on a stopped persistent tool has returned "not running".
C2_Witness ==
    \E p \in Procs :
        /\ Returned(p, "Call")
        /\ proc[p].res = "NotRunning"
        /\ Persistent(proc[p].tool)
        /\ ~InTable(proc[p].tool)
        /\ status[proc[p].tool] = "stopped"

\* C3: the step in which Start is invoked on an installed tool that is not
\* persistent returns the wrong-mode error at once, spawns no child and
\* leaves the tables and the tool's fields, status "stopped" included, as
\* they were.
C3_StartOneshotRejected ==
    [][\A p \in Procs :
        (/\ proc[p].pc = "idle"
         /\ proc'[p].op = "Start"
         /\ Installed(proc'[p].tool)
         /\ ~Persistent(proc'[p].tool))
            => (/\ proc'[p].pc = "done"
                /\ proc'[p].res = "WrongMode"
                /\ status[proc'[p].tool] = "stopped"
                /\ UNCHANGED <<repls, queues, healthCancels, toolVars, child, sup, mu>>)]_vars

\* C3 witness: Start on a oneshot tool has returned the wrong-mode error.
C3_Witness ==
    \E p \in Procs :
        /\ Returned(p, "Start")
        /\ proc[p].res = "WrongMode"
        /\ ~Persistent(proc[p].tool)
        /\ status[proc[p].tool] = "stopped"

\* C4 as stated: whenever the child of a supervised run has been closed, the
\* run's supervisor has been cancelled and has exited.
C4_SupervisorExitedBeforeClose ==
    \A r \in ChildIds :
        (sup[r].pc # "none" /\ child[r].st = "closed")
            => (sup[r].cancelled /\ sup[r].pc = "done")

\* This step is supervisor r acting on the outcome o of its health check.
Applies(r, o) == sup[r].pc = o /\ sup'[r].pc = "select"

\* C5: while the tool is running, the step in which a supervisor acts on a
\* failed health check raises the failure counter by exactly one, and leaves
\* the health status "unhealthy" exactly when the raised counter is at or
\* above the manifest's threshold.
C5_FailureCounting ==
    [][\A r \in ChildIds :
        (Applies(r, "failed") /\ status[child[r].tool] = "running")
            => LET t == child[r].tool IN
               /\ healthFailures'[t] = healthFailures[t] + 1
               /\ (healthStatus'[t] = "unhealthy"
                      <=> healthFailures'[t] >= registry[t].health)]_vars

\* C5 witness: a running tool with a threshold above one has become
\* unhealthy with its counter at the threshold.
C5_Witness ==
    \E t \in ToolNames :
        /\ status[t] = "running"
        /\ registry[t].health > 1
        /\ healthStatus[t] = "unhealthy"
        /\ healthFailures[t] = registry[t].health

\* C6: while the tool is running, the step in which a supervisor acts on a
\* passed health check leaves the counter at 0 and the health status
\* "healthy", whatever they were.
C6_HealthyResets ==
    [][\A r \in ChildIds :
        (Applies(r, "passed") /\ status[child[r].tool] = "running")
            => LET t == child[r].tool IN
               /\ healthFailures'[t] = 0
               /\ healthStatus'[t] = "healthy"]_vars

\* C6 witness: a health check has passed on a running tool that is
\* "unhealthy" with a counter above 0.
C6_Witness ==
    \E r \in ChildIds :
        /\ sup[r].pc = "passed"
        /\ status[child[r].tool] = "running"
        /\ healthStatus[child[r].tool] = "unhealthy"
        /\ healthFailures[child[r].tool] > 0

\* C7: a tool stops being "running", loses its table entry, or has the child
\* of its entry closed only in the step in which Stop or Close returns; no
\* step of a supervisor does any of it.
C7_SupervisorNeverTearsDown ==
    [][\A t \in ToolNames :
        (\/ status[t] = "running" /\ status'[t] # "running"
         \/ t \in DOMAIN repls /\ t \notin DOMAIN repls'
         \/ t \in DOMAIN queues /\ t \notin DOMAIN queues'
         \/ t \in DOMAIN TransportTable(t)
                /\ child[TransportTable(t)[t]].st # "closed"
                /\ child'[TransportTable(t)[t]].st = "closed")
            => \E p \in Procs : Unlocks(p, "Stop") \/ Unlocks(p, "Close")]_vars

\* C7 witness: an unhealthy tool is still running and still has its entry.
C7_Witness ==
    \E t \in ToolNames :
        /\ healthStatus[t] = "unhealthy"
        /\ status[t] = "running"
        /\ t \in DOMAIN TransportTable(t)
        /\ child[TransportTable(t)[t]].st # "closed"

\* C8: a oneshot tool is always "stopped" and in neither table, and a child
\* of it that has not been closed belongs to a Call that has not returned;
\* the child a oneshot Call talks to is one spawned by that Call, never used
\* before, and every answer of a oneshot Call (success, bootstrap failure,
\* call failure) comes from the step that closes that child.
C8_OneshotReaped ==
    /\ [](\A t \in ToolNames :
            ~Persistent(t) =>
                /\ status[t] = "stopped"
                /\ ~InTable(t)
                /\ \A c \in ChildIds :
                     (child[c].tool = t /\ child[c].st \in {"open", "dead"})
                        => \E p \in Procs : proc[p].pc = "oneshot" /\ proc[p].h = c)
    /\ [][\A p \in Procs :
            /\ (proc[p].pc # "oneshot" /\ proc'[p].pc = "oneshot")
                  => (child[proc'[p].h].st = "none" /\ child'[proc'[p].h].st = "open")
            /\ (proc[p].pc = "oneshot" /\ proc'[p].pc # "oneshot")
                  => (proc'[p].pc = "done" /\ child'[proc[p].h].st = "closed")
            /\ (/\ proc[p].pc # "done"
                /\ proc'[p].pc = "done"
                /\ proc'[p].op = "Call"
                /\ proc'[p].tool \in ToolNames
                /\ ~Persistent(proc'[p].tool)
                /\ proc'[p].res \in {"ok", "ToolError", "TransportError", "StartupFailed"})
                  => proc[p].pc = "oneshot"]_vars

\* C8 witness: a oneshot Call whose bootstrap failed has returned and the
\* child it spawned is closed.
C8_Witness ==
    \E p \in Procs, c \in ChildIds :
        /\ Returned(p, "Call")
        /\ proc[p].res = "StartupFailed"
        /\ ~Persistent(proc[p].tool)
        /\ child[c].tool = proc[p].tool
        /\ child[c].st = "closed"

\* C9: the step in which Call is invoked with a name outside the registry or
\* a method outside the manifest returns ToolNotFound or MethodNotFound at
\* once and changes neither the environment, the children, the tool's
\* fields, the tables nor the supervisors.
C9_ClientErrorsNoEffect ==
    [][\A p \in Procs :
        (/\ proc[p].pc = "idle"
         /\ proc'[p].op = "Call"
         /\ (~Installed(proc'[p].tool) \/ proc'[p].m \notin Methods))
            => (/\ proc'[p].pc = "done"
                /\ proc'[p].res =
                      IF Installed(proc'[p].tool) THEN "MethodNotFound" ELSE "ToolNotFound"
                /\ UNCHANGED <<env, child, toolVars, tableVars, sup, mu>>)]_vars

\* C9 witness: a Call of an undeclared method on a tool without environment
\* has returned MethodNotFound and the tool still has no environment.
C9_Witness ==
    \E p \in Procs :
        /\ Returned(p, "Call")
        /\ proc[p].res = "MethodNotFound"
        /\ Installed(proc[p].tool)
        /\ ~env[proc[p].tool]

\* C10 as stated: once a Call on a persistent tool has failed on a dead
\* child, the tool's table no longer holds that child.
C10_DeadHandleDropped ==
    \A p \in Procs :
        (/\ Returned(p, "Call")
         /\ proc[p].tool \in ToolNames
         /\ Persistent(proc[p].tool)
         /\ proc[p].res = "TransportError")
            => LET t == proc[p].tool IN
               ~(t \in DOMAIN TransportTable(t) /\ child[TransportTable(t)[t]].st = "dead")

\* C10 amended: the step in which a Call on a persistent tool's shared child
\* returns leaves both tables as they were, a Call sent to a child that is
\* dead or closed returns a transport error, and "not running" is returned
\* only when the tool has no entry.
C10_DeadHandleKept ==
    /\ [][\A p \in Procs :
            (proc[p].pc = "invoke" /\ proc'[p].pc = "done")
                => (/\ UNCHANGED <<repls, queues, healthCancels>>
                    /\ (child[proc[p].h].st # "open" => proc'[p].res = "TransportError"))]_vars
    /\ [][\A p \in Procs :
            (proc[p].pc = "lookup" /\ proc[p].tool \in DOMAIN TransportTable(proc[p].tool))
                => (proc'[p].pc = "lookup" \/ proc'[p].res # "NotRunning")]_vars

\* C10 witness: a Call has failed with a transport error and the dead child
\* is still the tool's table entry.
C10_Witness ==
    \E p \in Procs :
        /\ Returned(p, "Call")
        /\ proc[p].res = "TransportError"
        /\ proc[p].tool \in ToolNames
        /\ proc[p].tool \in DOMAIN TransportTable(proc[p].tool)
        /\ child[TransportTable(proc[p].tool)[proc[p].tool]].st = "dead"

\* C11: not settled; the serialisation of two requests on one handle is done
\* inside the jumpboot process handle, which the executor calls without a
\* lock of its own.

\* C12 as stated: a Call on a running persistent tool that has reached its
\* table lookup can take it while another handler is inside Start or Stop of
\* a different tool.
C12_CallsIndependent ==
    \A p, q \in PairProcs :
        (/\ proc[p].pc = "lookup"
         /\ InTable(proc[p].tool)
         /\ status[proc[p].tool] = "running"
         /\ proc[q].pc = "locked"
         /\ proc[q].op \in {"Start", "Stop"}
         /\ proc[q].tool # proc[p].tool)
            => ENABLED CallLookup(p)

\* C13 as stated: on either transport a reply that is an envelope with
\* ok=false makes the call fail, with the envelope's error type and message
\* when it carries them, and a reply that is an envelope with ok=true makes
\* the call return exactly the envelope's result.
C13_EnvelopeDecidesResult ==
    (result # NoResult /\ ~reply.err) =>
        IF reply.transport = "repl"
        THEN LET d == Unmarshal(Unquote(TrimSpace(reply.data))) IN
             d.valid => IF d.ok THEN result = Value(d.body)
                        ELSE result.err # "none" /\ (d.error => result = ToolFailure(d.body))
        ELSE LET v == reply.data IN
             v.kind = "envelope" => IF v.ok THEN result = Value(v.body)
                                    ELSE result.err # "none"

\* C13 amended: on the eval transport the text is trimmed, stripped of one
\* pair of outer quotes and has \' and \" replaced by the bare quotes; if
\* what is left decodes as an envelope, ok=false makes the call fail (with
\* the error's type and message when present) and ok=true makes it return
\* exactly the result; if it does not decode, the text is returned raw as a
\* result. On the framed transport the delivered value is returned as it
\* came, whatever it holds. A failure of the channel fails the call.
C13_DecodedEnvelopeDecides ==
    result # NoResult =>
        IF reply.err THEN result = ChannelFailure
        ELSE IF reply.transport = "repl"
        THEN LET d == Unmarshal(Unescape(Unquote(TrimSpace(reply.data)))) IN
             /\ (d.valid /\ ~d.ok) =>
                    (result.err # "none" /\ (d.error => result = ToolFailure(d.body)))
             /\ (d.valid /\ d.ok) => result = Value(d.body)
             /\ ~d.valid => result = Raw(reply.data)
        ELSE result = Handed(reply.data)

\* C13 witness: a quoted ok=false envelope on the eval channel has failed the
\* call with the envelope's error.
C13_Witness ==
    /\ reply.transport = "repl"
    /\ ~reply.err
    /\ reply.data = <<"'", "{F", "}", "'">>
    /\ result = ToolFailure(<<>>)


\* C14: whenever no operation of the file store is in the middle of its body
\* (Store.mu is free and has no reader), every row of the metadata table has
\* a blob under its id, whatever Imports, Renames, SetTTLs, Deletes and GC
\* runs have happened, failed ones included.
C14_RowHasBlob ==
    (CanLock /\ gc.pc = "idle") => \A i \in DOMAIN rows : i \in DOMAIN blobs

\* A row is left, renamed by the caller, after a GC run that deleted another
\* row.
C14_Witness ==
    /\ CanLock /\ gc.pc = "idle" /\ gc.n > 0
    /\ DOMAIN rows # {}
    /\ \E p \in Writers : sproc[p].pc = "done" /\ sproc[p].op = "Rename" /\ sproc[p].res = "ok"

C16_DeleteOnce ==
    [][/\ \A i \in FileIds :
            (i \in DOMAIN rows /\ i \notin DOMAIN rows')
               => /\ DOMAIN rows' = DOMAIN rows \ {i}
                  /\ \A j \in DOMAIN rows' : rows'[j] = rows[j]
                  /\ DOMAIN blobs' \in {DOMAIN blobs, DOMAIN blobs \ {i}}
                  /\ \/ /\ gc.pc = "sweep" /\ smu.w = Collector
                        /\ Head(gc.expired) = i /\ sproc' = sproc
                     \/ /\ gc' = gc
                        /\ \E p \in Writers :
                              /\ smu.w = p /\ sproc[p].op = "Delete" /\ sproc[p].id = i
                              /\ sproc'[p].pc = "done" /\ sproc'[p].res = "ok"
       /\ \A p \in Writers :
            (sproc[p].pc = "locked" /\ sproc[p].op = "Delete" /\ sproc'[p].pc = "done")
               => /\ sproc'[p].res = "ok"
                        => (sproc[p].id \in DOMAIN rows /\ sproc[p].id \notin DOMAIN rows')
                  /\ sproc[p].id \notin DOMAIN rows
                        => /\ sproc'[p].res \in {"NotFound", "Failed"}
                           /\ rows' = rows /\ blobs' = blobs
       /\ gc.pc = "sweep" => Head(gc.expired) \in DOMAIN rows]_vars

\* The GC run has deleted both files, and the caller's Delete of one of them
\* has found the row gone.
C16_Witness ==
    /\ gc.pc = "idle" /\ gc.n = 2 /\ nextId = 3 /\ rows = <<>>
    /\ \E p \in Writers :
          /\ sproc[p].pc = "done" /\ sproc[p].op = "Delete"
          /\ sproc[p].id \in {1, 2} /\ sproc[p].res = "NotFound"

\* C17: a List that runs while an Import is in progress reads the table at a
\* moment when no Import is between its blob and its row: what it returns is
\* the selection over the table of that moment, newest first, and every row
\* in it has its blob fully written.
C17_ListSnapshot ==
    [][\A p \in Readers :
          (sproc[p].pc = "locked" /\ sproc'[p].pc = "done" /\ sproc'[p].res = "ok")
             => /\ sproc'[p].list = Desc(Listed(sproc[p].all))
                /\ \A i \in DOMAIN rows : i \in DOMAIN blobs /\ blobs[i] = "full"
                /\ \A w \in Writers : sproc[w].pc \notin {"locked", "insert"}]_vars

\* A List has returned a row while an Import was waiting for the lock.
C17_Witness ==
    /\ \E p \in Readers : sproc[p].pc = "done" /\ sproc[p].res = "ok" /\ Len(sproc[p].list) = 1
    /\ \E w \in Writers : sproc[w].pc = "wait" /\ sproc[w].op = "Import"

\* C18 as stated: the reverse index holds tool -> child exactly when child
\* made the latest registration claiming the tool and is healthy. Violated:
\* the entry of a child stays when the child turns unhealthy, and goes when
\* the child is removed.
C18_IndexIffRecentHealthy ==
    \A t \in ToolSet, c \in ServerIds :
        (t \in DOMAIN toolMap /\ toolMap[t] = c)
            <=> /\ t \in DOMAIN lastClaim /\ lastClaim[t] = c
                /\ c \in DOMAIN children /\ children[c].status = "healthy"

\* C18 amended: an entry tool -> child of the reverse index names the child
\* whose Register call was the latest to claim the tool; a step changes an
\* entry only by a Register of the new owner whose list holds the tool, or
\* by deleting it together with its owner, which had the tool in its list;
\* the status of the owner is looked at by the lookup alone, which resolves a
\* tool only to a registered, healthy owner.
C18_IndexOnlyIfRecent ==
    [][/\ \A t \in DOMAIN toolMap : t \in DOMAIN lastClaim /\ toolMap[t] = lastClaim[t]
       /\ \A t \in DOMAIN toolMap' :
            (t \notin DOMAIN toolMap \/ toolMap[t] # toolMap'[t])
               => /\ toolMap'[t] \in DOMAIN children'
                  /\ t \in children'[toolMap'[t]].tools
                  /\ children'[toolMap'[t]].status = "healthy"
                  /\ children'[toolMap'[t]].age = 0
       /\ \A t \in DOMAIN toolMap \ DOMAIN toolMap' :
               /\ toolMap[t] \in DOMAIN children \ DOMAIN children'
               /\ t \in children[toolMap[t]].tools
       /\ \A t \in ToolSet :
            GetChildForTool(t) # "none"
               => /\ toolMap[t] = GetChildForTool(t)
                  /\ children[toolMap[t]].status = "healthy"]_vars

\* The index still maps a tool to a child that has turned unhealthy, while a
\* healthy child that registered earlier claims the tool too.
C18_Witness ==
    /\ "t1" \in DOMAIN toolMap /\ toolMap["t1"] = "c1"
    /\ "c1" \in DOMAIN children /\ children["c1"].status = "unhealthy"
    /\ "c2" \in DOMAIN children /\ children["c2"].status = "healthy"
    /\ "t1" \in children["c2"].tools

C20_RemovedChildLeavesNoEntry ==
    [][\A c \in ServerIds :
          (c \in DOMAIN children /\ c \notin DOMAIN children')
             => /\ \A t \in DOMAIN toolMap' : toolMap'[t] # c
                /\ \A t \in ToolSet :
                      (t \in DOMAIN toolMap /\ toolMap[t] = c)
                         => (\/ t \notin DOMAIN toolMap'
                             \/ toolMap'[t] \notin DOMAIN children'
                             \/ children'[toolMap'[t]].status # "healthy")]_vars

\* C21: for a registered child, any number of heartbeats in a row with the
\* same id and the same tool list (none included) leave the children map, the
\* statuses and the reverse index as one such heartbeat leaves them.
C21_HeartbeatIdempotent ==
    \A id \in DOMAIN children, tools \in SUBSET ToolSet, n \in 1..MaxBeats :
        NoTimes(Beats(Broker, id, tools, n)) = NoTimes(handleHeartbeat(Broker, id, tools))

\* A heartbeat has been answered, and one from c1 with the list {t1} would
\* now change the maps: c1 is unhealthy and t1 belongs to c2.
C21_Witness ==
    /\ hb.pc = "idle" /\ hb.res = 200
    /\ "c1" \in DOMAIN children /\ children["c1"].status = "unhealthy"
    /\ "t1" \in DOMAIN toolMap /\ toolMap["t1"] = "c2"
    /\ NoTimes(handleHeartbeat(Broker, "c1", {"t1"})) # NoTimes(Broker)

\* C22 as stated: the Register call of a heartbeat from child c with the tool
\* list L leaves every tool of L mapped to c and no tool outside L mapped to
\* c. Violated: a tool c claimed before and left out of L stays mapped to c.
C22_IndexFollowsList ==
    [][(hb.pc = "register" /\ hb'.pc = "beat")
          => /\ \A t \in hb.tools : t \in DOMAIN toolMap' /\ toolMap'[t] = hb.id
             /\ \A t \in DOMAIN toolMap' \ hb.tools : toolMap'[t] # hb.id]_vars

\* C23 as stated: a request for a tool whose owner in the reverse index is
\* registered and unhealthy, while another registered child is healthy and
\* has the tool in its list, is forwarded to such a child. Violated: the
\* request is answered 503.
C23_FailsOver ==
    [][\A t \in ToolSet :
          (/\ px.pc \in {"idle", "done"} /\ px' # px /\ px'.tool = t
           /\ t \in DOMAIN toolMap /\ toolMap[t] \in DOMAIN children
           /\ children[toolMap[t]].status # "healthy"
           /\ \E c \in DOMAIN children :
                 children[c].status = "healthy" /\ t \in children[c].tools)
             => /\ px'.pc = "forward"
                /\ px'.owner \in DOMAIN children
                /\ children[px'.owner].status = "healthy"
                /\ t \in children[px'.owner].tools]_vars

\* This step is an Install of a source with a manifest.
InstallStep == inst' # inst /\ inst'.res # "none" /\ inst'.src.manifest # NoManifest

C25_FailedInstallCleansUp ==
    [][(InstallStep /\ inst'.res \in {"EnvFailed", "PkgFailed"})
          => /\ inst'.src.manifest.name \notin DOMAIN toolsDir'
             /\ inst'.src.manifest.name \notin DOMAIN catalog']_vars

\* C26 as stated: right after a successful Install, LoadAll by a new Manager
\* gives the names, paths and manifests the catalogue holds. Violated: the
\* tools root holds the directory of an Install whose packages failed, or
\* lacks the directory of a catalogued tool that a refused Install removed.
C26_ScanEqualsCatalogue ==
    [][(InstallStep /\ inst'.res = "ok")
          => Entries(LoadAll(toolsDir')) = Entries(catalog')]_vars

\* C27: when a multipart call request carries the same field as a file part
\* and as a non-file value (its own form value or a member of the params
\* part), the parameter handed to the tool is the path of the spooled file,
\* whatever the input schema declares.
C27_FileWins ==
    up.pc = "call" =>
        \A k \in up.req.files : k \in DOMAIN up.params /\ up.params[k].file \in up.temp

C29_BearerOrQueryToken ==
    (auth.token # <<>> /\ auth.code # 0) =>
        /\ auth.handed = auth.route
              <=> (auth.header = <<"Bearer">> \o auth.token \/ auth.query = auth.token)
        /\ auth.handed = "none" <=> auth.code = 401

\* C29 amended: the credential is the Authorization header, or the token
\* query parameter when the header is empty; the request reaches its route
\* handler iff the credential is "Bearer <token>" or the bare token, and is
\* answered 401 without reaching any handler otherwise.
C29_CredentialDecides ==
    (auth.token # <<>> /\ auth.code # 0) =>
        LET cred == IF auth.header # <<>> THEN auth.header ELSE auth.query IN
        /\ auth.handed = auth.route
              <=> cred \in {<<"Bearer">> \o auth.token, auth.token}
        /\ auth.handed = "none" <=> auth.code = 401
        /\ auth.handed \in {"none", auth.route}

\* A request with a wrong Authorization header and the right token query
\* parameter was answered 401.
C29_Witness ==
    /\ auth.token = <<"T">>
    /\ auth.header = <<"Bearer", "X">>
    /\ auth.query = <<"T">>
    /\ auth.code = 401
    /\ auth.handed = "none"

\* C30: the status, health status and failure counter of a tool are written
\* only in a step of a handler that starts, stops or closes, holding the
\* executor's lock; no background goroutine writes them.
C30_ToolFieldsWrittenByHandlers ==
    [][toolVars' # toolVars => (proc' # proc /\ mu # "free")]_vars

\* C31: the step in which Close returns leaves both process tables and the
\* table of cancel functions empty, every child that was in a table closed,
\* every supervisor whose cancel function was stored cancelled, and every
\* tool that was in a table "stopped".
C31_CloseEmptiesAll ==
    [][\A p \in Procs :
        Unlocks(p, "Close") =>
            /\ repls' = <<>> /\ queues' = <<>> /\ healthCancels' = <<>>
            /\ \A t \in DOMAIN repls : child'[repls[t]].st = "closed" /\ status'[t] = "stopped"
            /\ \A t \in DOMAIN queues : child'[queues[t]].st = "closed" /\ status'[t] = "stopped"
            /\ \A t \in DOMAIN healthCancels : sup'[healthCancels[t]].cancelled]_vars

\* C31 witness: Close has returned, having closed a supervised child.
C31_Witness ==
    \E p \in Procs, c \in ChildIds :
        /\ Returned(p, "Close")
        /\ child[c].st = "closed"
        /\ sup[c].cancelled
        /\ status[child[c].tool] = "stopped"
        /\ repls = <<>> /\ queues = <<>> /\ healthCancels = <<>>

\* The open children of tool t.
OpenChildren(t) == {c \in ChildIds : child[c].tool = t /\ child[c].st = "open"}

C33_FailedStartLeavesNothing ==
    [][\A p \in Procs :
        (Unlocks(p, "Start") /\ proc'[p].res \in {"EnvError", "SpawnFailed", "StartupFailed"}) =>
            /\ tableVars' = tableVars
            /\ sup' = sup
            /\ status' = status
            /\ status[proc[p].tool] = "stopped"
            /\ \A c \in ChildIds : child'[c] # child[c] => child'[c].st = "closed"]_vars

\* C33 witness: a Start has failed in the bootstrap; its child is closed and
\* the tool is in no table.
C33_Witness ==
    \E p \in Procs, c \in ChildIds :
        /\ Returned(p, "Start")
        /\ proc[p].res = "StartupFailed"
        /\ child[c] = [tool |-> proc[p].tool, st |-> "closed"]
        /\ ~InTable(proc[p].tool)
        /\ status[proc[p].tool] = "stopped"
        /\ sup[c] = NoSup

\* C34 as stated: a cancelled supervisor ends, and takes the ticker case at
\* most once after the cancellation.
C34_EndsAfterOneCheck ==
    /\ \A r \in ChildIds : sup[r].cancelled ~> (sup[r].pc = "done")
    /\ [][\A r \in ChildIds :
            (sup[r].cancelled /\ sup[r].late /\ sup[r].pc = "select")
                => sup'[r].pc # "call"]_vars

\* C34 amended: a cancelled supervisor ends, provided the health call in
\* flight returns and the select does not pass over ctx.Done() for ever.
C34_CancelledSupervisorEnds ==
    \A r \in ChildIds : (sup[r].pc # "none" /\ sup[r].cancelled) ~> (sup[r].pc = "done")

\* C34 witness: a supervisor has ended after a check begun after its
\* cancellation.
C34_Witness ==
    \E r \in ChildIds : sup[r].cancelled /\ sup[r].late /\ sup[r].pc = "done"

\* C35: while no Start, Stop or Close holds the lock, a tool is "running"
\* iff it is in a process table, and has a cancel function iff it is in a
\* process table and its manifest has a health block.
C35_StatusMatchesTables ==
    mu = "free" =>
        \A t \in ToolNames :
            /\ status[t] = "running" <=> InTable(t)
            /\ t \in DOMAIN healthCancels <=> (InTable(t) /\ HasHealth(t))

\* C35 witness: between operations, a tool started earlier has been stopped
\* and a supervised tool is running.
C35_Witness ==
    /\ mu = "free"
    /\ \E c \in ChildIds : child[c].st = "closed" /\ sup[c].cancelled
    /\ \E t \in ToolNames : status[t] = "running" /\ t \in DOMAIN healthCancels

\* C36: a supervisor that has been cancelled does nothing but return: it
\* begins no health check and writes no field of the tool.
C36_StoppedSupervisorSilent ==
    [][\A r \in ChildIds :
        (sup[r].cancelled /\ sup'[r] # sup[r])
            => (sup'[r].pc = "done" /\ toolVars' = toolVars)]_vars

\* C37: an Install that fails leaves every catalogued tool that had its
\* directory in the tools root with that directory, unchanged.
C37_FailedInstallKeepsInstalled ==
    [][(InstallStep /\ inst'.res # "ok")
          => \A n \in DOMAIN catalog \cap DOMAIN toolsDir :
                 n \in DOMAIN toolsDir' /\ toolsDir'[n] = toolsDir[n]]_vars

\* The heartbeat loops that are running.
RunningLoops == {i \in LoopIds : client.loop[i] \in {"select", "heartbeat", "register"}}

\* C38: a child client never runs two heartbeat loops at once, and once Stop
\* has returned none is running.
C38_OneHeartbeatLoop ==
    /\ Cardinality(RunningLoops) <= 1
    /\ client.main = "stopped" => RunningLoops = {}

\* C39: no step of a GC run removes or changes a row that is permanent or
\* expires after the time the run has read, nor its blob, whatever Import,
\* Rename and SetTTL did between the runs.
C39_GCSparesUnexpired ==
    [][gc' # gc =>
        \A i \in DOMAIN rows :
            (rows[i].exp = 0 \/ rows[i].exp > gc'.T)
                => /\ i \in DOMAIN rows' /\ rows'[i] = rows[i]
                   /\ i \in DOMAIN blobs => (i \in DOMAIN blobs' /\ blobs'[i] = blobs[i])]_vars

\* C39 witness: a run has deleted a row and has left a permanent row and a
\* row that expires later.
C39_Witness ==
    /\ gc.pc = "idle"
    /\ gc.n > 0
    /\ \E i \in DOMAIN rows : rows[i].exp = 0 \/ rows[i].exp > gc.T

\* The row of i has expired.
Lapsed(i) == rows[i].exp > 0 /\ rows[i].exp <= now

\* Caller p is answered by op in this step.
Answers(p, op) == sproc[p].pc = "locked" /\ sproc[p].op = op /\ sproc'[p].pc = "done"

\* C40: the default List leaves out the rows that have expired; GetPath and
\* Info, unless the database fails, find a row exactly when it is in the
\* table, expired or not; a SetTTL that succeeds leaves the row permanent or
\* expiring after now; and a row leaves the table only in a step of a GC run
\* or of Delete.
C40_ExpiredUntilCollected ==
    [][/\ \A p \in Readers :
            (Answers(p, "List") /\ sproc'[p].res = "ok")
                => \A i \in DOMAIN rows :
                       (\E k \in 1..Len(sproc'[p].list) : sproc'[p].list[k] = i) <=> ~Lapsed(i)
       /\ \A p \in Readers :
            ((Answers(p, "GetPath") \/ Answers(p, "Info")) /\ sproc'[p].res # "Failed")
                => (sproc'[p].res = "ok" <=> sproc[p].id \in DOMAIN rows)
       /\ \A p \in Writers :
            (Answers(p, "SetTTL") /\ sproc'[p].res = "ok")
                => LET e == rows'[sproc[p].id].exp IN
                   e = (IF sproc[p].ttl > 0 THEN now + sproc[p].ttl ELSE 0)
       /\ (DOMAIN rows \ DOMAIN rows' # {})
                => (gc' # gc \/ \E p \in Writers : Answers(p, "Delete"))]_vars

\* C40 witness: Info has found a row that has expired and is still in the
\* table.
C40_Witness ==
    \E p \in Readers :
        /\ sproc[p].pc = "done"
        /\ sproc[p].op = "Info"
        /\ sproc[p].res = "ok"
        /\ sproc[p].id \in DOMAIN rows
        /\ Lapsed(sproc[p].id)
        /\ sproc[p].ttl = rows[sproc[p].id].exp

============================================================================
